---- MODULE Spec2Model ----
(***************************************************************************)
(* Model of forge-executor.                                                *)
(*                                                                         *)
(* Spec    VmOrchestrator<B> (orchestrator.rs) used by concurrent tasks.   *)
(*         B is FirecrackerBackend or the AlwaysFailBackend test double.   *)
(*         A backend method is one suspension: it starts, and it returns.  *)
(*         Its effect on the child process and the snapshot files is kept; *)
(*         sockets, pausing and the request log move only in SpecFc.       *)
(* SpecFc  FirecrackerBackend (firecracker.rs) called directly, as the     *)
(*         lifecycle tests do, one step per await point.                   *)
(* SpecHealth  FirecrackerBackend::health_check over the host's answers.   *)
(* SpecParse   parse_execution_output over framed and damaged serial       *)
(*         streams, with base64 and the decimal exit code computed.        *)
(* SpecRun     BlockRunner::execute (runner.rs) over the results of        *)
(*         execute_command, with compute_hash.                             *)
(*                                                                         *)
(* A step of a task runs the code between two await points.  VM ids and    *)
(* snapshot ids (Uuid::new_v4) are modelled as fresh numbers.              *)
(***************************************************************************)
EXTENDS Integers, Sequences, FiniteSets, TLC

\* ---------------------------------------------------------------- bounds
NumTasks == 2
NumCallers == 1
MaxVms == 2
MaxSnaps == 1
\* the directories of PATH
MaxDirs == 3
\* the length of what the guest writes to a stream
MaxLen == 3

Tasks == 1..NumTasks
Callers == 1..NumCallers
Slots == Tasks \cup Callers
VmIds == 1..MaxVms
SnapIds == 1..MaxSnaps
NoTask == 0
NoId == 0

VARIABLES
    backend,      \* which VmmBackend the orchestrator wraps
    active_vms,   \* VmOrchestrator.active_vms: the registry
    mutex,        \* holder of the tokio Mutex guarding active_vms, or NoTask
    pc,           \* per slot: the await point the call is suspended at
    op,           \* per slot: the method it is running
    arg,          \* per slot: the handle.id or snapshot_id argument of the call
    fresh,        \* per slot: the id the backend allocated in the call (vm_id / snapshot_id)
    reqs,         \* per slot: control requests sent by the backend in this call
    ret,          \* the call that returned in the last step: what it returned, what the
                  \* backend returned to it, and the registry as that step found it (reg0)
    checked,      \* the KVM and binary checks made in the last step: by which method,
                  \* what the filesystem answered, and their result
    proc,         \* per VM id: state of the VMM child process
    paused,       \* per VM id: guest is paused
    sockets,      \* VM ids whose <socket_dir>/<id>.sock exists
    mem_files,    \* snapshot ids whose <snapshot_dir>/<id>.mem exists
    state_files,  \* snapshot ids whose <snapshot_dir>/<id>.state exists
    handles,      \* VM ids whose VmHandle is owned by a caller and not in use
    next_vm,      \* next fresh VM id
    next_snap,    \* next fresh snapshot id
    acked,        \* history: ids of handles a backend spawn/restore returned Ok
    net_ok,       \* history: orchestrator spawn/restore calls that returned Ok, minus
                  \* orchestrator terminate calls that returned Ok
    mark,         \* history: per VM id, active_count before its spawn while nothing
                  \* else changed the registry
    call,         \* the arguments and locals of the BlockRunner::execute under way
    guest,        \* what the command run in the guest wrote and how it exited
    serial,       \* the bytes read from the VMM's stdout (the guest's serial console)
    output,       \* what execute_command returned
    record,       \* what BlockRunner::execute returned
    prev,         \* the output and the hashes of the run before
    polls,        \* the wait_for_socket under way: the existence checks it has made and
                  \* the milliseconds it has slept
    entries,      \* SandboxPool.entries: the registered sandboxes, in insertion order
    audit         \* history, kept when audit.on: per VM id, the backend terminate calls
                  \* the orchestrator made for it and the registry its insert found; the
                  \* ids whose backend terminate failed; the ids removed from the registry

vars == <<backend, active_vms, mutex, pc, op, arg, fresh, reqs, ret, checked, proc, paused,
          sockets, mem_files, state_files, handles, next_vm, next_snap,
          acked, net_ok, mark, call, guest, serial, output, record, prev, polls, entries, audit>>

\* what one command execution, the polling inside one socket wait, and the gateway's
\* sandbox pool add to the state
Runs == <<call, guest, serial, output, record, prev, polls, entries, audit>>

\* the same without the history of the orchestrator's terminate calls
Unaudited == <<call, guest, serial, output, record, prev, polls, entries>>

\* ------------------------------------------------------- results & errors
NoRes == [ok |-> FALSE, kind |-> "none", id |-> NoId, reason |-> <<>>]
Ok(v) == [ok |-> TRUE, kind |-> "Ok", id |-> v, reason |-> <<>>]
Err(k, i, r) == [ok |-> FALSE, kind |-> k, id |-> i, reason |-> r]

IsErr(r) == ~r.ok /\ r.kind # "none"

\* ret when the last step was not the return of a call
NoRet == [slot |-> NoTask, op |-> "none", arg |-> NoId, fresh |-> NoId, reqs |-> <<>>,
          bres |-> NoRes, res |-> NoRes, before |-> -1, reg0 |-> {}]

\* call when BlockRunner::execute has not been called
NoCall == [block |-> NoId, input |-> <<>>, input_hash |-> <<>>, started_at |-> 0,
           running |-> FALSE]

\* guest when no command has run
NoGuest == [stdout |-> <<>>, stderr |-> <<>>, code |-> 0, ran |-> FALSE]

\* checked when the last step made no KVM and binary checks
NoCheck == [op |-> "none", res |-> NoRes,
            env |-> [kvm |-> TRUE, abs |-> TRUE, exists |-> TRUE, in_path |-> TRUE]]

\* ExecutorError's Display (thiserror #[error(...)] attributes), as a token sequence
Display(e) ==
    CASE e.kind = "SpawnFailed" -> <<"VM spawn failed: ">> \o e.reason
      [] e.kind = "ApiError" -> <<"API request failed: ">> \o e.reason
      [] e.kind = "SnapshotFailed" -> <<"snapshot failed for VM ", e.id, ": ">> \o e.reason
      [] e.kind = "RestoreFailed" -> <<"restore failed for snapshot ", e.id, ": ">> \o e.reason
      [] e.kind = "VmNotFound" -> <<"VM not found: ", e.id>>
      [] e.kind = "KvmUnavailable" -> <<"KVM not available: ">> \o e.reason
      [] e.kind = "BinaryNotFound" -> <<"firecracker binary not found at ">> \o e.reason
      [] OTHER -> e.reason

\* a `?` that rewraps the error instead of returning it as it is
PropagateWrapped(r) == IF r.ok THEN r ELSE Err("SpawnFailed", NoId, Display(r))

\* the `?` operator on a Result whose error type is already ExecutorError
Propagate(r) == r

\* ------------------------------------------------------------ environment
\* what the filesystem answers to the checks of one call
Envs == [kvm : BOOLEAN, abs : BOOLEAN, exists : BOOLEAN, in_path : BOOLEAN]

\* which_binary(path)
which_binary(env) ==
    IF env.abs
    THEN IF env.exists THEN Ok(NoId) ELSE Err("BinaryNotFound", NoId, <<"binary_path">>)
    ELSE IF env.in_path THEN Ok(NoId) ELSE Err("BinaryNotFound", NoId, <<"binary_path">>)

\* the KVM and binary checks at the head of FirecrackerBackend::spawn
SpawnChecks(env) ==
    IF ~env.kvm THEN Err("KvmUnavailable", NoId, <<"/dev/kvm not found">>)
    ELSE IF ~env.exists THEN which_binary(env)
    ELSE Ok(NoId)

\* the KVM and binary checks at the head of FirecrackerBackend::execute_command
ExecuteChecks(env) ==
    IF ~env.kvm THEN Err("KvmUnavailable", NoId, <<"/dev/kvm not found">>)
    ELSE which_binary(env)

\* --------------------------------------------------------- control client
\* Outcomes of one api_request against the VMM of VM id: success, a failure
\* before the request reached the VMM, or a failure after the VMM acted on it.
ApiOutcomes(id) ==
    IF proc[id] \in {"running"}
    THEN { [ok |-> TRUE, msg |-> "ok", applied |-> TRUE],
           [ok |-> FALSE, msg |-> "connect", applied |-> FALSE],
           [ok |-> FALSE, msg |-> "read response body", applied |-> TRUE] }
    ELSE { [ok |-> FALSE, msg |-> "connect", applied |-> FALSE] }

\* api_request's return value
api_request(o) == IF o.ok THEN Ok(NoId) ELSE Err("ApiError", NoId, <<o.msg>>)

Sent(name, o) == [req |-> name, ok |-> o.ok, msg |-> o.msg]

\* a request logged with the body it carried
SentBody(name, o, body) == [req |-> name, ok |-> o.ok, msg |-> o.msg, body |-> body]

\* the PATCH /vm Paused of a snapshot call, with whether the guest was paused already
SentPause(o, was) == [req |-> "PATCH /vm Paused", ok |-> o.ok, msg |-> o.msg, was |-> was]

\* ---------------------------------------------------------------- registry
\* an insert that is lost
RegistryInsertLost(s, id) == s

\* an insert of a newly drawn id instead of the handle's
RegistryInsertOtherId(s, id) == s \cup {next_vm}

\* a remove that is lost
RegistryRemoveLost(s, id) == s

\* a remove that empties the registry
RegistryRemoveAll(s, id) == {}

\* a membership test that always passes
RegistryContainsAlways(s, id) == TRUE

\* BTreeSet::insert / remove / contains / len under the lock
RegistryInsert(s, id) == s \cup {id}
RegistryRemove(s, id) == s \ {id}
RegistryContains(s, id) == id \in s
RegistryLen(s) == Cardinality(s)

\* a lock that is granted while another task holds the guard
MutexFreeAlways == TRUE

\* tokio Mutex: lock() resolves only while nobody holds the guard
MutexFree == mutex = NoTask

LockPcs == {"spawn_lock", "restore_lock", "snapshot_lock", "terminate_lock1",
            "terminate_lock2", "count_lock"}
CritPcs == {"spawn_crit", "restore_crit", "snapshot_crit", "terminate_crit1",
            "terminate_crit2", "count_crit"}
CritOf(p) ==
    CASE p = "spawn_lock" -> "spawn_crit"
      [] p = "restore_lock" -> "restore_crit"
      [] p = "snapshot_lock" -> "snapshot_crit"
      [] p = "terminate_lock1" -> "terminate_crit1"
      [] p = "terminate_lock2" -> "terminate_crit2"
      [] p = "count_lock" -> "count_crit"

\* ----------------------------------------------------------- child process
\* a Child whose drop leaves the VMM running
DropChildLeaks(p, id) == p

\* Command::kill_on_drop(true): dropping the Child of a backend-launched VMM kills it;
\* a Child made elsewhere and wrapped by VmHandle::new ("foreign") is left alone.
DropChild(p, id) == [p EXCEPT ![id] = IF @ = "running" THEN "killed" ELSE @]

\* ------------------------------------------- what the backend methods return
\* FirecrackerBackend::spawn's errors before the VMM child exists
\* (besides those of SpawnChecks)
FcLaunchErrors == { Err("Io", NoId, <<"create_dir_all">>),
                    Err("SpawnFailed", NoId, <<"exec firecracker: ", "io">>) }

\* the methods that launch a VMM under a vm_id of their own
VmOps == {"fc_spawn", "fc_restore", "fc_execute"}

\* FirecrackerBackend::socket_path
socket_path(id) == <<"socket_dir", id, ".sock">>

\* FirecrackerBackend::snapshot_mem_path / snapshot_state_path
snapshot_mem_path(snapshot_id) == <<"snapshot_dir", snapshot_id, ".mem">>
snapshot_state_path(snapshot_id) == <<"snapshot_dir", snapshot_id, ".state">>

\* Path::exists for a path under snapshot_dir
SnapshotFileExists(path) ==
    \/ \E x \in mem_files : snapshot_mem_path(x) = path
    \/ \E x \in state_files : snapshot_state_path(x) = path

\* the body of snapshot's PUT /snapshot/create
CreateBody(snapshot_id) ==
    [snapshot_type |-> "Full",
     snapshot_path |-> snapshot_state_path(snapshot_id),
     mem_file_path |-> snapshot_mem_path(snapshot_id)]

\* a load that names the two files the other way round
LoadBodySwapped(snapshot_id) ==
    [snapshot_path |-> snapshot_mem_path(snapshot_id),
     mem_backend |-> [backend_path |-> snapshot_state_path(snapshot_id),
                      backend_type |-> "File"],
     enable_diff_snapshots |-> FALSE,
     resume_vm |-> TRUE]

\* the body of restore's PUT /snapshot/load
LoadBody(snapshot_id) ==
    [snapshot_path |-> snapshot_state_path(snapshot_id),
     mem_backend |-> [backend_path |-> snapshot_mem_path(snapshot_id),
                      backend_type |-> "File"],
     enable_diff_snapshots |-> FALSE,
     resume_vm |-> TRUE]

\* wait_for_socket's error
SocketTimeout(id) == Err("SpawnFailed", NoId, <<"socket ", id, " did not appear within 5s">>)

\* a wait that reports every caller's timeout as it is
WaitFailedUnmapped(m, a, id) == SocketTimeout(id)

\* what method m(a) returns when its wait_for_socket(socket_path(id)) returns the error:
\* spawn and execute_command pass it on with `?`, restore maps it to RestoreFailed
WaitFailed(m, a, id) ==
    IF m = "fc_restore" THEN Err("RestoreFailed", a, Display(SocketTimeout(id)))
    ELSE SocketTimeout(id)

\* api_request's errors
ApiErrors == { Err("ApiError", NoId, <<"connect">>),
               Err("ApiError", NoId, <<"read response body">>) }

\* FirecrackerBackend::spawn's errors once the VMM child exists
FcSpawnErrors(id) ==
    {SocketTimeout(id)} \cup { Err("SpawnFailed", NoId, Display(e)) : e \in ApiErrors }

\* a restore that reports a failed launch as spawn does
FcRestoreLaunchErrorsAsSpawn(s) == FcLaunchErrors

\* FirecrackerBackend::restore's errors before / once the VMM child exists
FcRestoreLaunchErrors(s) == { Err("Io", NoId, <<"create_dir_all">>),
                              Err("RestoreFailed", s, <<"exec firecracker: ", "io">>) }
FcRestoreErrors(s, id) ==
    { Err("RestoreFailed", s, Display(e)) : e \in {SocketTimeout(id)} \cup ApiErrors }

\* FirecrackerBackend::snapshot's errors
FcSnapshotErrors(vm) ==
    { Err("Io", NoId, <<"create_dir_all">>) }
    \cup { Err("SnapshotFailed", vm, <<"pause failed: ">> \o Display(e)) : e \in ApiErrors }
    \cup { Err("SnapshotFailed", vm, Display(e)) : e \in ApiErrors }

\* FirecrackerBackend::terminate's error
FcTerminateErrors == { Err("Io", NoId, <<"kill">>) }

\* --------------------------------------------------------------- the state
InitCommon ==
    /\ active_vms = {}
    /\ mutex = NoTask
    /\ pc = [t \in Slots |-> "idle"]
    /\ op = [t \in Slots |-> "none"]
    /\ arg = [t \in Slots |-> NoId]
    /\ fresh = [t \in Slots |-> NoId]
    /\ reqs = [t \in Slots |-> <<>>]
    /\ ret = NoRet
    /\ checked = NoCheck
    /\ proc = [i \in VmIds |-> "none"]
    /\ paused = [i \in VmIds |-> FALSE]
    /\ sockets = {}
    /\ mem_files = {}
    /\ state_files = {}
    /\ handles = {}
    /\ next_vm = 1
    /\ next_snap = 1
    /\ acked = {}
    /\ net_ok = 0
    /\ mark = [i \in VmIds |-> -1]

\* no terminate was called, nothing was inserted or removed; no history is kept
NoAudit == [on |-> FALSE, invoked |-> [i \in VmIds |-> 0], reg0 |-> [i \in VmIds |-> {}],
            failed |-> {}, removed |-> {}]

\* the history after an orchestrator step that makes it a
Audited(a) == IF audit.on THEN a ELSE audit

\* no existence check made, no sleep slept
NoPolls == [checks |-> 0, slept |-> 0]

\* no command has been executed, no socket wait is polling
InitRuns ==
    /\ call = NoCall
    /\ guest = NoGuest
    /\ serial = <<>>
    /\ output = NoRes
    /\ record = NoRes
    /\ prev = NoRes
    /\ polls = NoPolls
    /\ entries = <<>>
    /\ audit = NoAudit

\* VmOrchestrator::new(backend)
Init ==
    /\ backend \in {"Firecracker", "AlwaysFail"}
    /\ InitCommon
    /\ InitRuns

\* frames
Disk == <<sockets, mem_files, state_files>>
History == <<acked, net_ok, mark>>
Registry == <<active_vms, mutex>>

\* Caller slots are interchangeable: a new call takes the lowest idle slot.
CanCall(t) == pc[t] = "idle" /\ \A u \in Slots : u < t => pc[u] # "idle"

\* the call of slot t enters method m with argument a, suspended at p
Enter(t, m, a, p) ==
    /\ op' = [op EXCEPT ![t] = m]
    /\ arg' = [arg EXCEPT ![t] = a]
    /\ pc' = [pc EXCEPT ![t] = p]

\* the future of slot t is over: its locals are gone
Clear(t) ==
    /\ pc' = [pc EXCEPT ![t] = "idle"]
    /\ op' = [op EXCEPT ![t] = "none"]
    /\ arg' = [arg EXCEPT ![t] = NoId]
    /\ fresh' = [fresh EXCEPT ![t] = NoId]
    /\ reqs' = [reqs EXCEPT ![t] = <<>>]

\* the call m(a) of slot t returns r to its caller, the backend method it ran (if it
\* ran one) having returned b and sent the requests of log
ReturnLog(t, m, a, b, r, log) ==
    /\ checked' = NoCheck
    /\ ret' = [slot |-> t, op |-> m, arg |-> a, fresh |-> fresh[t], reqs |-> log,
               bres |-> b, res |-> r, before |-> IF m = "terminate" THEN mark[a] ELSE -1,
               reg0 |-> active_vms]
    /\ Clear(t)

\* the backend method m(a) of slot t returns the error r of its KVM and binary checks,
\* made against the filesystem answers env
ReturnChecked(t, m, a, r, env) ==
    /\ checked' = [op |-> m, res |-> r, env |-> env]
    /\ ret' = [slot |-> t, op |-> m, arg |-> a, fresh |-> NoId, reqs |-> <<>>,
               bres |-> r, res |-> r, before |-> -1, reg0 |-> active_vms]
    /\ Clear(t)

Return(t, m, a, b, r) == ReturnLog(t, m, a, b, r, reqs[t])

\* the backend method of the orchestrator call m(a) of task t returns the error e, and
\* the orchestrator's `?` returns it to the caller
BackendFails(t, m, a, e) == Return(t, m, a, e, Propagate(e))

\* ================================================ Spec: the orchestrator
\* ------------------------------------------------- VmOrchestrator::spawn
\* orchestrator.spawn(config) is called and backend.spawn starts: it fails at once,
\* or it launches the VMM child and suspends
CallSpawn(t) ==
    /\ t \in Tasks
    /\ CanCall(t)
    /\ \/ /\ backend = "AlwaysFail"
          /\ BackendFails(t, "spawn", NoId, Err("SpawnFailed", NoId, <<"mock always fails">>))
          /\ UNCHANGED <<next_vm, proc>>
       \/ /\ backend = "Firecracker"
          /\ next_vm <= MaxVms
          /\ \E env \in Envs :
                IF ~SpawnChecks(env).ok
                THEN /\ BackendFails(t, "spawn", NoId, SpawnChecks(env))
                     /\ UNCHANGED <<next_vm, proc>>
                ELSE \/ /\ \E e \in FcLaunchErrors : BackendFails(t, "spawn", NoId, e)
                        /\ UNCHANGED <<next_vm, proc>>
                     \/ /\ Enter(t, "spawn", NoId, "b_spawn")
                        /\ fresh' = [fresh EXCEPT ![t] = next_vm]
                        /\ next_vm' = next_vm + 1
                        /\ proc' = [proc EXCEPT ![next_vm] = "running"]
                        /\ ret' = NoRet
                        /\ checked' = NoCheck
                        /\ UNCHANGED reqs
    /\ UNCHANGED <<backend, Runs, Registry, paused, Disk, handles, next_snap, History>>

\* backend.spawn returns: Ok(handle), and the orchestrator goes on to lock the
\* registry; or an error that drops the child
BackendSpawnReturns(t) ==
    /\ pc[t] = "b_spawn"
    /\ \/ /\ pc' = [pc EXCEPT ![t] = "spawn_lock"]
          /\ acked' = acked \cup {fresh[t]}
          /\ ret' = NoRet
          /\ checked' = NoCheck
          /\ UNCHANGED <<op, arg, fresh, reqs, proc>>
       \/ /\ \E e \in FcSpawnErrors(fresh[t]) : BackendFails(t, "spawn", NoId, e)
          /\ proc' = DropChild(proc, fresh[t])
          /\ UNCHANGED acked
    /\ UNCHANGED <<backend, Runs, Registry, paused, Disk, handles, next_vm, next_snap, net_ok, mark>>

\* ------------------------------------------------------ the registry mutex
\* self.active_vms.lock().await resolves: task t now holds the guard
MutexLock(t) ==
    /\ pc[t] \in LockPcs
    /\ MutexFree
    /\ mutex' = t
    /\ pc' = [pc EXCEPT ![t] = CritOf(pc[t])]
    /\ ret' = NoRet
    /\ checked' = NoCheck
    /\ UNCHANGED <<backend, Runs, active_vms, op, arg, fresh, reqs, proc, paused,
                   Disk, handles, next_vm, next_snap, History>>

\* spawn / restore, holding the guard: insert(handle.id), drop the guard, return
\* Ok(handle); the handle is the caller's from now on
InsertCrit(t) ==
    /\ pc[t] \in {"spawn_crit", "restore_crit"}
    /\ active_vms' = RegistryInsert(active_vms, fresh[t])
    /\ mutex' = NoTask
    /\ Return(t, op[t], arg[t], Ok(fresh[t]), Ok(fresh[t]))
    /\ handles' = handles \cup {fresh[t]}
    /\ net_ok' = net_ok + 1
    /\ mark' = [i \in VmIds |->
                  IF i = fresh[t] /\ op[t] = "spawn" THEN RegistryLen(active_vms)
                  ELSE IF active_vms' # active_vms THEN -1 ELSE mark[i]]
    /\ audit' = Audited([audit EXCEPT !.reg0[fresh[t]] = active_vms])
    /\ UNCHANGED <<backend, Unaudited, proc, paused, Disk, next_vm, next_snap, acked>>

\* ----------------------------------------------- VmOrchestrator::restore
\* orchestrator.restore(&snapshot_id) is called and backend.restore starts
CallRestore(t, s) ==
    /\ t \in Tasks
    /\ CanCall(t)
    /\ \/ /\ backend = "AlwaysFail"
          /\ BackendFails(t, "restore", s, Err("SpawnFailed", NoId, <<"mock">>))
          /\ UNCHANGED <<next_vm, proc>>
       \/ /\ backend = "Firecracker"
          /\ next_vm <= MaxVms
          /\ IF s \notin mem_files \/ s \notin state_files
             THEN /\ BackendFails(t, "restore", s,
                                  Err("RestoreFailed", s,
                                      <<"snapshot files not found at ", s, ".mem">>))
                  /\ UNCHANGED <<next_vm, proc>>
             ELSE \/ /\ \E e \in FcRestoreLaunchErrors(s) : BackendFails(t, "restore", s, e)
                     /\ UNCHANGED <<next_vm, proc>>
                  \/ /\ Enter(t, "restore", s, "b_restore")
                     /\ fresh' = [fresh EXCEPT ![t] = next_vm]
                     /\ next_vm' = next_vm + 1
                     /\ proc' = [proc EXCEPT ![next_vm] = "running"]
                     /\ ret' = NoRet
                     /\ checked' = NoCheck
                     /\ UNCHANGED reqs
    /\ UNCHANGED <<backend, Runs, Registry, paused, Disk, handles, next_snap, History>>

\* backend.restore returns: Ok(handle), or an error that drops the child
BackendRestoreReturns(t) ==
    /\ pc[t] = "b_restore"
    /\ \/ /\ pc' = [pc EXCEPT ![t] = "restore_lock"]
          /\ acked' = acked \cup {fresh[t]}
          /\ ret' = NoRet
          /\ checked' = NoCheck
          /\ UNCHANGED <<op, arg, fresh, reqs, proc>>
       \/ /\ \E e \in FcRestoreErrors(arg[t], fresh[t]) : BackendFails(t, "restore", arg[t], e)
          /\ proc' = DropChild(proc, fresh[t])
          /\ UNCHANGED acked
    /\ UNCHANGED <<backend, Runs, Registry, paused, Disk, handles, next_vm, next_snap, net_ok, mark>>

\* ---------------------------------------------- VmOrchestrator::snapshot
\* snapshot ids still needed by snapshot calls that have not reached the backend
SnapshotsPending == Cardinality({u \in Tasks : pc[u] \in {"snapshot_lock", "snapshot_crit"}})

\* orchestrator.snapshot(&handle) is called with a handle the caller owns
CallSnapshot(t, h) ==
    /\ t \in Tasks
    /\ CanCall(t)
    /\ h \in handles
    /\ next_snap + SnapshotsPending <= MaxSnaps
    /\ handles' = handles \ {h}
    /\ Enter(t, "snapshot", h, "snapshot_lock")
    /\ ret' = NoRet
    /\ checked' = NoCheck
    /\ UNCHANGED <<backend, Runs, Registry, fresh, reqs, proc, paused, Disk,
                   next_vm, next_snap, History>>

\* snapshot, holding the guard: the membership test; when it passes, backend.snapshot starts
SnapshotCrit(t) ==
    /\ pc[t] = "snapshot_crit"
    /\ mutex' = NoTask
    /\ IF ~RegistryContains(active_vms, arg[t])
       THEN /\ Return(t, "snapshot", arg[t], NoRes, Err("VmNotFound", arg[t], <<>>))
            /\ handles' = handles \cup {arg[t]}
            /\ UNCHANGED next_snap
       ELSE IF backend = "AlwaysFail"
       THEN /\ BackendFails(t, "snapshot", arg[t], Err("SpawnFailed", NoId, <<"mock">>))
            /\ handles' = handles \cup {arg[t]}
            /\ UNCHANGED next_snap
       ELSE /\ fresh' = [fresh EXCEPT ![t] = next_snap]
            /\ next_snap' = next_snap + 1
            /\ pc' = [pc EXCEPT ![t] = "b_snapshot"]
            /\ ret' = NoRet
            /\ checked' = NoCheck
            /\ UNCHANGED <<op, arg, reqs, handles>>
    /\ UNCHANGED <<backend, Runs, active_vms, proc, paused, Disk, next_vm, History>>

\* the VMM wrote the snapshot files although PUT /snapshot/create was reported failed
WroteAnyway(e) ==
    e.kind = "SnapshotFailed"
    /\ e.reason = Display(Err("ApiError", NoId, <<"read response body">>))

\* backend.snapshot returns, and orchestrator.snapshot returns what it returned
BackendSnapshotReturns(t) ==
    /\ pc[t] = "b_snapshot"
    /\ \E r \in {Ok(fresh[t])} \cup FcSnapshotErrors(arg[t]) :
          /\ Return(t, "snapshot", arg[t], r, Propagate(r))
          /\ mem_files' = IF r.ok \/ WroteAnyway(r) THEN mem_files \cup {fresh[t]}
                          ELSE mem_files
          /\ state_files' = IF r.ok \/ WroteAnyway(r) THEN state_files \cup {fresh[t]}
                            ELSE state_files
    /\ handles' = handles \cup {arg[t]}
    /\ UNCHANGED <<backend, Runs, Registry, proc, paused, sockets, next_vm, next_snap, History>>

\* --------------------------------------------- VmOrchestrator::terminate
\* a terminate called with a copy of the handle, the caller keeping the original
CallTerminateKeepsHandle(t, h) ==
    /\ t \in Tasks
    /\ CanCall(t)
    /\ h \in handles
    /\ Enter(t, "terminate", h, "terminate_lock1")
    /\ ret' = NoRet
    /\ checked' = NoCheck
    /\ UNCHANGED <<backend, Runs, Registry, fresh, reqs, proc, paused, Disk, handles,
                   next_vm, next_snap, History>>

\* orchestrator.terminate(handle) is called: the handle moves into the call
CallTerminate(t, h) ==
    /\ t \in Tasks
    /\ CanCall(t)
    /\ h \in handles
    /\ handles' = handles \ {h}
    /\ Enter(t, "terminate", h, "terminate_lock1")
    /\ ret' = NoRet
    /\ checked' = NoCheck
    /\ UNCHANGED <<backend, Runs, Registry, fresh, reqs, proc, paused, Disk,
                   next_vm, next_snap, History>>

\* a terminate that keeps the guard while backend.terminate is awaited
TerminateCrit1HoldsGuard(t) ==
    /\ pc[t] = "terminate_crit1"
    /\ IF ~RegistryContains(active_vms, arg[t])
       THEN /\ Return(t, "terminate", arg[t], NoRes, Err("VmNotFound", arg[t], <<>>))
            /\ proc' = DropChild(proc, arg[t])
            /\ mutex' = NoTask
            /\ UNCHANGED audit
       ELSE /\ pc' = [pc EXCEPT ![t] = "b_terminate"]
            /\ audit' = Audited([audit EXCEPT !.invoked[arg[t]] = @ + 1])
            /\ ret' = NoRet
            /\ checked' = NoCheck
            /\ UNCHANGED <<op, arg, fresh, reqs, proc, mutex>>
    /\ UNCHANGED <<backend, Unaudited, active_vms, paused, Disk, handles, next_vm, next_snap,
                   History>>

\* terminate, holding the guard: the membership test; when it passes,
\* backend.terminate starts with the handle
TerminateCrit1(t) ==
    /\ pc[t] = "terminate_crit1"
    /\ mutex' = NoTask
    /\ IF ~RegistryContains(active_vms, arg[t])
       THEN /\ Return(t, "terminate", arg[t], NoRes, Err("VmNotFound", arg[t], <<>>))
            /\ proc' = DropChild(proc, arg[t])
            /\ UNCHANGED audit
       ELSE IF backend = "AlwaysFail"
       THEN /\ pc' = [pc EXCEPT ![t] = "terminate_lock2"]
            /\ proc' = DropChild(proc, arg[t])
            /\ audit' = Audited([audit EXCEPT !.invoked[arg[t]] = @ + 1])
            /\ ret' = NoRet
            /\ checked' = NoCheck
            /\ UNCHANGED <<op, arg, fresh, reqs>>
       ELSE /\ pc' = [pc EXCEPT ![t] = "b_terminate"]
            /\ audit' = Audited([audit EXCEPT !.invoked[arg[t]] = @ + 1])
            /\ ret' = NoRet
            /\ checked' = NoCheck
            /\ UNCHANGED <<op, arg, fresh, reqs, proc>>
    /\ UNCHANGED <<backend, Unaudited, active_vms, paused, Disk, handles, next_vm, next_snap,
                   History>>

\* a terminate that removes the id from the registry whatever backend.terminate returns
BackendTerminateReturnsRemoves(t) ==
    /\ pc[t] = "b_terminate"
    /\ \/ /\ proc' = [proc EXCEPT ![arg[t]] = "killed"]
          /\ pc' = [pc EXCEPT ![t] = "terminate_lock2"]
          /\ ret' = NoRet
          /\ checked' = NoCheck
          /\ UNCHANGED <<op, arg, fresh, reqs, audit, active_vms>>
       \/ /\ proc' = DropChild(proc, arg[t])
          /\ \E e \in FcTerminateErrors : BackendFails(t, "terminate", arg[t], e)
          /\ audit' = Audited([audit EXCEPT !.failed = @ \cup {arg[t]}])
          /\ active_vms' = RegistryRemove(active_vms, arg[t])
    /\ UNCHANGED <<backend, Unaudited, mutex, paused, Disk, handles, next_vm, next_snap,
                   History>>

\* backend.terminate returns: the child was killed, or kill() failed and the handle
\* is dropped with the error
BackendTerminateReturns(t) ==
    /\ pc[t] = "b_terminate"
    /\ \/ /\ proc' = [proc EXCEPT ![arg[t]] = "killed"]
          /\ pc' = [pc EXCEPT ![t] = "terminate_lock2"]
          /\ ret' = NoRet
          /\ checked' = NoCheck
          /\ UNCHANGED <<op, arg, fresh, reqs, audit>>
       \/ /\ proc' = DropChild(proc, arg[t])
          /\ \E e \in FcTerminateErrors : BackendFails(t, "terminate", arg[t], e)
          /\ audit' = Audited([audit EXCEPT !.failed = @ \cup {arg[t]}])
    /\ UNCHANGED <<backend, Unaudited, Registry, paused, Disk, handles, next_vm, next_snap,
                   History>>

\* terminate, holding the guard again: remove(vm_id), return Ok
TerminateCrit2(t) ==
    /\ pc[t] = "terminate_crit2"
    /\ active_vms' = RegistryRemove(active_vms, arg[t])
    /\ mutex' = NoTask
    /\ Return(t, "terminate", arg[t], Ok(NoId), Ok(NoId))
    /\ net_ok' = net_ok - 1
    /\ mark' = [i \in VmIds |->
                  IF i = arg[t] \/ active_vms' # active_vms THEN -1 ELSE mark[i]]
    /\ audit' = Audited([audit EXCEPT !.removed = @ \cup {arg[t]}])
    /\ UNCHANGED <<backend, Unaudited, proc, paused, Disk, handles, next_vm, next_snap, acked>>

\* ------------------------------------------ VmOrchestrator::active_count
CallActiveCount(t) ==
    /\ t \in Tasks
    /\ CanCall(t)
    /\ Enter(t, "active_count", NoId, "count_lock")
    /\ ret' = NoRet
    /\ checked' = NoCheck
    /\ UNCHANGED <<backend, Runs, Registry, fresh, reqs, proc, paused, Disk, handles,
                   next_vm, next_snap, History>>

\* active_count, holding the guard: len()
CountCrit(t) ==
    /\ pc[t] = "count_crit"
    /\ mutex' = NoTask
    /\ Return(t, "active_count", NoId, NoRes, Ok(RegistryLen(active_vms)))
    /\ UNCHANGED <<backend, Runs, active_vms, proc, paused, Disk, handles, next_vm, next_snap,
                   History>>

\* --------------------------------------------------- handles and futures
\* a caller drops a VmHandle it owns without terminating it
DropHandle(h) ==
    /\ h \in handles
    /\ handles' = handles \ {h}
    /\ proc' = DropChild(proc, h)
    /\ paused' = [paused EXCEPT ![h] = IF proc[h] = "running" THEN FALSE ELSE @]
    /\ ret' = NoRet
    /\ checked' = NoCheck
    /\ UNCHANGED <<backend, Runs, Registry, pc, op, arg, fresh, reqs, Disk,
                   next_vm, next_snap, History>>

\* a caller builds a handle of its own with VmHandle::new(Uuid::new_v4(), path, child),
\* as the orchestrator's unit tests do
ForeignHandle ==
    /\ next_vm <= MaxVms
    /\ proc' = [proc EXCEPT ![next_vm] = "foreign"]
    /\ handles' = handles \cup {next_vm}
    /\ next_vm' = next_vm + 1
    /\ ret' = NoRet
    /\ checked' = NoCheck
    /\ UNCHANGED <<backend, Runs, Registry, pc, op, arg, fresh, reqs, paused, Disk,
                   next_snap, History>>

\* the VMM children that the future of task t owns at its await point pc[t]
ChildOwnedAt(t) ==
    IF pc[t] \in {"b_spawn", "spawn_lock", "b_restore", "restore_lock"}
    THEN {fresh[t]}
    ELSE IF pc[t] \in {"terminate_lock1", "b_terminate", "terminate_lock2"}
    THEN {arg[t]}
    ELSE {}

\* the caller drops the future of its orchestrator call at an await point
Cancel(t) ==
    /\ t \in Tasks
    /\ pc[t] \notin {"idle"} \cup CritPcs
    /\ proc' = [i \in VmIds |-> IF i \in ChildOwnedAt(t) THEN DropChild(proc, i)[i] ELSE proc[i]]
    /\ handles' = IF op[t] = "snapshot" THEN handles \cup {arg[t]} ELSE handles
    /\ Clear(t)
    /\ ret' = NoRet
    /\ checked' = NoCheck
    /\ UNCHANGED <<backend, Runs, Registry, paused, Disk, next_vm, next_snap, History>>

Next ==
    \/ \E t \in Tasks : CallSpawn(t)
    \/ \E t \in Tasks : BackendSpawnReturns(t)
    \/ \E t \in Tasks : \E s \in SnapIds : CallRestore(t, s)
    \/ \E t \in Tasks : BackendRestoreReturns(t)
    \/ \E t \in Tasks : \E h \in VmIds : CallSnapshot(t, h)
    \/ \E t \in Tasks : SnapshotCrit(t)
    \/ \E t \in Tasks : BackendSnapshotReturns(t)
    \/ \E t \in Tasks : \E h \in VmIds : CallTerminate(t, h)
    \/ \E t \in Tasks : TerminateCrit1(t)
    \/ \E t \in Tasks : BackendTerminateReturns(t)
    \/ \E t \in Tasks : TerminateCrit2(t)
    \/ \E t \in Tasks : CallActiveCount(t)
    \/ \E t \in Tasks : CountCrit(t)
    \/ \E t \in Tasks : MutexLock(t)
    \/ \E t \in Tasks : InsertCrit(t)
    \/ \E t \in Tasks : Cancel(t)
    \/ \E h \in VmIds : DropHandle(h)
    \/ ForeignHandle

Spec == Init /\ [][Next]_vars

\* VmOrchestrator::new(backend), with the history of its terminate calls kept
InitAudited ==
    /\ backend \in {"Firecracker", "AlwaysFail"}
    /\ InitCommon
    /\ call = NoCall
    /\ guest = NoGuest
    /\ serial = <<>>
    /\ output = NoRes
    /\ record = NoRes
    /\ prev = NoRes
    /\ polls = NoPolls
    /\ entries = <<>>
    /\ audit = [NoAudit EXCEPT !.on = TRUE]

\* the orchestrator as in Spec, with that history
SpecAudited == InitAudited /\ [][Next]_vars

\* the await points at which a backend method is in flight
BackendPcs == {"b_spawn", "b_restore", "b_snapshot", "b_terminate"}

\* the statement task t executes while it holds the guard
CritStep(t) ==
    InsertCrit(t) \/ SnapshotCrit(t) \/ TerminateCrit1(t) \/ TerminateCrit2(t) \/ CountCrit(t)

\* a step of a call under way that needs nothing from its caller
Progress(t) ==
    \/ MutexLock(t) \/ CritStep(t)
    \/ BackendSpawnReturns(t) \/ BackendRestoreReturns(t)
    \/ BackendSnapshotReturns(t) \/ BackendTerminateReturns(t)

\* ============================================ SpecFc: FirecrackerBackend
\* the backend method m(a) of caller c returns r, having sent the requests of log
FcReturnLog(c, m, a, r, log) == ReturnLog(c, m, a, r, r, log)

FcReturn(c, m, a, r) == FcReturnLog(c, m, a, r, reqs[c])

\* --------------------------------------------- FirecrackerBackend::spawn
\* an order that boots before the machine is configured
ConfigureRequestsBootFirst == <<"PUT /actions InstanceStart", "PUT /boot-source",
                                "PUT /drives/rootfs", "PUT /machine-config">>

\* configure_and_boot's requests, in the order of its statements
ConfigureRequests == <<"PUT /boot-source", "PUT /drives/rootfs", "PUT /machine-config",
                       "PUT /actions InstanceStart">>
ConfigurePcs == <<"sp_boot_source", "sp_drives", "sp_machine_config", "sp_actions">>

\* a mapping that returns the control client's error as it is
ConfigureErrorUnmapped(e) == e

\* .map_err(|e| ExecutorError::SpawnFailed(e.to_string())) on configure_and_boot's error
ConfigureError(e) == Err("SpawnFailed", NoId, Display(e))

\* backend.spawn(config) is called: the KVM and binary checks, a fresh vm_id, and
\* create_dir_all(socket_dir) is awaited
FcSpawn(c) ==
    /\ c \in Callers
    /\ CanCall(c)
    /\ next_vm <= MaxVms
    /\ \E env \in Envs :
          IF SpawnChecks(env).ok
          THEN /\ Enter(c, "fc_spawn", NoId, "sp_mkdir")
               /\ fresh' = [fresh EXCEPT ![c] = next_vm]
               /\ next_vm' = next_vm + 1
               /\ ret' = NoRet
               /\ checked' = [op |-> "fc_spawn", res |-> SpawnChecks(env), env |-> env]
               /\ UNCHANGED reqs
          ELSE /\ ReturnChecked(c, "fc_spawn", NoId, SpawnChecks(env), env)
               /\ UNCHANGED next_vm
    /\ UNCHANGED <<backend, Runs, Registry, proc, paused, Disk, handles, next_snap, History>>

\* create_dir_all(socket_dir) returns; on success the VMM child is launched and
\* wait_for_socket starts polling
FcSpMkdir(c) ==
    /\ pc[c] = "sp_mkdir"
    /\ \/ /\ \E e \in FcLaunchErrors : FcReturn(c, "fc_spawn", NoId, e)
          /\ UNCHANGED proc
       \/ /\ proc' = [proc EXCEPT ![fresh[c]] = "running"]
          /\ pc' = [pc EXCEPT ![c] = "sp_wait"]
          /\ ret' = NoRet
          /\ checked' = NoCheck
          /\ UNCHANGED <<op, arg, fresh, reqs>>
    /\ UNCHANGED <<backend, Runs, Registry, paused, Disk, handles, next_vm, next_snap, History>>

\* wait_for_socket returns: the socket file appeared, or the polls ran out
FcSpWait(c) ==
    /\ pc[c] = "sp_wait"
    /\ \/ /\ sockets' = sockets \cup {fresh[c]}
          /\ pc' = [pc EXCEPT ![c] = ConfigurePcs[1]]
          /\ ret' = NoRet
          /\ checked' = NoCheck
          /\ UNCHANGED <<op, arg, fresh, reqs, proc>>
       \/ /\ FcReturn(c, "fc_spawn", NoId, WaitFailed("fc_spawn", NoId, fresh[c]))
          /\ proc' = DropChild(proc, fresh[c])
          /\ UNCHANGED sockets
    /\ UNCHANGED <<backend, Runs, Registry, paused, mem_files, state_files, handles,
                   next_vm, next_snap, History>>

\* the k-th request of configure_and_boot returns; after the last, spawn returns the handle
FcSpConfigure(c, k) ==
    /\ pc[c] = ConfigurePcs[k]
    /\ \E o \in ApiOutcomes(fresh[c]) :
          LET log == Append(reqs[c], Sent(ConfigureRequests[k], o)) IN
          IF ~o.ok
          THEN /\ FcReturnLog(c, "fc_spawn", NoId, ConfigureError(api_request(o)), log)
               /\ proc' = DropChild(proc, fresh[c])
               /\ UNCHANGED <<acked, handles>>
          ELSE IF k < Len(ConfigurePcs)
          THEN /\ pc' = [pc EXCEPT ![c] = ConfigurePcs[k + 1]]
               /\ reqs' = [reqs EXCEPT ![c] = log]
               /\ ret' = NoRet
               /\ checked' = NoCheck
               /\ UNCHANGED <<op, arg, fresh, proc, acked, handles>>
          ELSE /\ FcReturnLog(c, "fc_spawn", NoId, Ok(fresh[c]), log)
               /\ acked' = acked \cup {fresh[c]}
               /\ handles' = handles \cup {fresh[c]}
               /\ UNCHANGED proc
    /\ UNCHANGED <<backend, Runs, Registry, paused, Disk, next_vm, next_snap, net_ok, mark>>

\* ------------------------------------------ FirecrackerBackend::snapshot
\* backend.snapshot(&handle) is called with a handle the caller owns: a fresh
\* snapshot_id, and create_dir_all(snapshot_dir) is awaited
FcSnapshot(c, h) ==
    /\ c \in Callers
    /\ CanCall(c)
    /\ h \in handles
    /\ next_snap <= MaxSnaps
    /\ handles' = handles \ {h}
    /\ Enter(c, "fc_snapshot", h, "sn_mkdir")
    /\ fresh' = [fresh EXCEPT ![c] = next_snap]
    /\ next_snap' = next_snap + 1
    /\ ret' = NoRet
    /\ checked' = NoCheck
    /\ UNCHANGED <<backend, Runs, Registry, reqs, proc, paused, Disk, next_vm, History>>

\* create_dir_all(snapshot_dir) returns; on success PATCH /vm {state: Paused} is sent
FcSnMkdir(c) ==
    /\ pc[c] = "sn_mkdir"
    /\ \/ /\ FcReturn(c, "fc_snapshot", arg[c], Err("Io", NoId, <<"create_dir_all">>))
          /\ handles' = handles \cup {arg[c]}
       \/ /\ pc' = [pc EXCEPT ![c] = "sn_pause"]
          /\ ret' = NoRet
          /\ checked' = NoCheck
          /\ UNCHANGED <<op, arg, fresh, reqs, handles>>
    /\ UNCHANGED <<backend, Runs, Registry, proc, paused, Disk, next_vm, next_snap, History>>

\* PATCH /vm {state: Paused} returns; on success PUT /snapshot/create is sent
FcSnPause(c) ==
    /\ pc[c] = "sn_pause"
    /\ \E o \in ApiOutcomes(arg[c]) :
          LET log == Append(reqs[c], SentPause(o, paused[arg[c]])) IN
          /\ paused' = [paused EXCEPT ![arg[c]] = IF o.applied THEN TRUE ELSE @]
          /\ IF o.ok
             THEN /\ pc' = [pc EXCEPT ![c] = "sn_create"]
                  /\ reqs' = [reqs EXCEPT ![c] = log]
                  /\ ret' = NoRet
                  /\ checked' = NoCheck
                  /\ UNCHANGED <<op, arg, fresh, handles>>
             ELSE /\ FcReturnLog(c, "fc_snapshot", arg[c],
                                 Err("SnapshotFailed", arg[c],
                                     <<"pause failed: ">> \o Display(api_request(o))), log)
                  /\ handles' = handles \cup {arg[c]}
    /\ UNCHANGED <<backend, Runs, Registry, proc, Disk, next_vm, next_snap, History>>

\* PUT /snapshot/create returns and its error is returned at once, with no resume
FcSnCreateEarlyReturn(c) ==
    /\ pc[c] = "sn_create"
    /\ \E o \in ApiOutcomes(arg[c]) :
          LET log == Append(reqs[c], Sent("PUT /snapshot/create", o)) IN
          /\ mem_files' = IF o.applied THEN mem_files \cup {fresh[c]} ELSE mem_files
          /\ state_files' = IF o.applied THEN state_files \cup {fresh[c]} ELSE state_files
          /\ IF o.ok
             THEN /\ pc' = [pc EXCEPT ![c] = "sn_resume"]
                  /\ reqs' = [reqs EXCEPT ![c] = log]
                  /\ ret' = NoRet
                  /\ checked' = NoCheck
                  /\ UNCHANGED <<op, arg, fresh, handles>>
             ELSE /\ FcReturnLog(c, "fc_snapshot", arg[c],
                                 Err("SnapshotFailed", arg[c], Display(api_request(o))), log)
                  /\ handles' = handles \cup {arg[c]}
    /\ UNCHANGED <<backend, Runs, Registry, proc, paused, sockets, next_vm, next_snap, History>>

\* PUT /snapshot/create returns; its result is kept and PATCH /vm {state: Resumed} is sent
FcSnCreate(c) ==
    /\ pc[c] = "sn_create"
    /\ \E o \in ApiOutcomes(arg[c]) :
          LET body == CreateBody(fresh[c]) IN
          /\ reqs' = [reqs EXCEPT ![c] = Append(@, SentBody("PUT /snapshot/create", o, body))]
          /\ mem_files' = IF o.applied
                          THEN mem_files
                               \cup {x \in SnapIds : snapshot_mem_path(x) = body.mem_file_path}
                          ELSE mem_files
          /\ state_files' = IF o.applied
                            THEN state_files
                                 \cup {x \in SnapIds : snapshot_state_path(x) = body.snapshot_path}
                            ELSE state_files
    /\ pc' = [pc EXCEPT ![c] = "sn_resume"]
    /\ ret' = NoRet
    /\ checked' = NoCheck
    /\ UNCHANGED <<backend, Runs, Registry, op, arg, fresh, proc, paused, sockets, handles,
                   next_vm, next_snap, History>>

\* a mapping that reports success whatever PUT /snapshot/create returned
SnapshotResultSwallowed(vm, sid, created) == Ok(sid)

\* a mapping that returns the control client's error of PUT /snapshot/create as it is
SnapshotResultUnmapped(vm, sid, created) ==
    IF created.ok THEN Ok(sid) ELSE Err("ApiError", NoId, <<created.msg>>)

\* the kept result of PUT /snapshot/create, mapped as snapshot's last statements map it
SnapshotResult(vm, sid, created) ==
    IF created.ok THEN Ok(sid)
    ELSE Err("SnapshotFailed", vm, Display(Err("ApiError", NoId, <<created.msg>>)))

\* PATCH /vm {state: Resumed} returns and is ignored; snapshot returns
FcSnResume(c) ==
    /\ pc[c] = "sn_resume"
    /\ \E o \in ApiOutcomes(arg[c]) :
          /\ paused' = [paused EXCEPT ![arg[c]] = IF o.applied THEN FALSE ELSE @]
          /\ FcReturnLog(c, "fc_snapshot", arg[c],
                         SnapshotResult(arg[c], fresh[c], reqs[c][Len(reqs[c])]),
                         Append(reqs[c], Sent("PATCH /vm Resumed", o)))
    /\ handles' = handles \cup {arg[c]}
    /\ UNCHANGED <<backend, Runs, Registry, proc, Disk, next_vm, next_snap, History>>

\* ------------------------------------------- FirecrackerBackend::restore
\* a restore that takes the id of a VM that has run for the restored VM
FcRestoreSameId(c, s) ==
    /\ c \in Callers
    /\ CanCall(c)
    /\ s \in mem_files /\ s \in state_files
    /\ \E id \in acked :
          /\ Enter(c, "fc_restore", s, "rs_mkdir")
          /\ fresh' = [fresh EXCEPT ![c] = id]
    /\ ret' = NoRet
    /\ checked' = NoCheck
    /\ UNCHANGED <<backend, Runs, Registry, reqs, proc, paused, Disk, handles, next_vm,
                   next_snap, History>>

\* backend.restore(&snapshot_id) is called: the two files are looked for, a fresh
\* vm_id, and create_dir_all(socket_dir) is awaited
FcRestore(c, s) ==
    /\ c \in Callers
    /\ CanCall(c)
    /\ next_vm <= MaxVms
    /\ IF ~SnapshotFileExists(snapshot_mem_path(s)) \/ ~SnapshotFileExists(snapshot_state_path(s))
       THEN /\ FcReturn(c, "fc_restore", s,
                        Err("RestoreFailed", s, <<"snapshot files not found at ", s, ".mem">>))
            /\ UNCHANGED next_vm
       ELSE /\ Enter(c, "fc_restore", s, "rs_mkdir")
            /\ fresh' = [fresh EXCEPT ![c] = next_vm]
            /\ next_vm' = next_vm + 1
            /\ ret' = NoRet
            /\ checked' = NoCheck
            /\ UNCHANGED reqs
    /\ UNCHANGED <<backend, Runs, Registry, proc, paused, Disk, handles, next_snap, History>>

\* create_dir_all(socket_dir) returns; on success the VMM child is launched and
\* wait_for_socket starts polling
FcRsMkdir(c) ==
    /\ pc[c] = "rs_mkdir"
    /\ \/ /\ \E e \in FcRestoreLaunchErrors(arg[c]) : FcReturn(c, "fc_restore", arg[c], e)
          /\ UNCHANGED proc
       \/ /\ proc' = [proc EXCEPT ![fresh[c]] = "running"]
          /\ pc' = [pc EXCEPT ![c] = "rs_wait"]
          /\ ret' = NoRet
          /\ checked' = NoCheck
          /\ UNCHANGED <<op, arg, fresh, reqs>>
    /\ UNCHANGED <<backend, Runs, Registry, paused, Disk, handles, next_vm, next_snap, History>>

\* wait_for_socket returns; on success PUT /snapshot/load is sent
FcRsWait(c) ==
    /\ pc[c] = "rs_wait"
    /\ \/ /\ sockets' = sockets \cup {fresh[c]}
          /\ pc' = [pc EXCEPT ![c] = "rs_load"]
          /\ ret' = NoRet
          /\ checked' = NoCheck
          /\ UNCHANGED <<op, arg, fresh, reqs, proc>>
       \/ /\ FcReturn(c, "fc_restore", arg[c], WaitFailed("fc_restore", arg[c], fresh[c]))
          /\ proc' = DropChild(proc, fresh[c])
          /\ UNCHANGED sockets
    /\ UNCHANGED <<backend, Runs, Registry, paused, mem_files, state_files, handles,
                   next_vm, next_snap, History>>

\* PUT /snapshot/load returns; on success restore returns the handle
FcRsLoad(c) ==
    /\ pc[c] = "rs_load"
    /\ \E o \in ApiOutcomes(fresh[c]) :
          LET log == Append(reqs[c], SentBody("PUT /snapshot/load", o, LoadBody(arg[c]))) IN
          IF o.ok
          THEN /\ FcReturnLog(c, "fc_restore", arg[c], Ok(fresh[c]), log)
               /\ acked' = acked \cup {fresh[c]}
               /\ handles' = handles \cup {fresh[c]}
               /\ UNCHANGED proc
          ELSE /\ FcReturnLog(c, "fc_restore", arg[c],
                              Err("RestoreFailed", arg[c], Display(api_request(o))), log)
               /\ proc' = DropChild(proc, fresh[c])
               /\ UNCHANGED <<acked, handles>>
    /\ UNCHANGED <<backend, Runs, Registry, paused, Disk, next_vm, next_snap, net_ok, mark>>

\* ----------------------------------------- FirecrackerBackend::terminate
\* backend.terminate(handle) is called: the handle moves in, kill() is awaited
FcTerminate(c, h) ==
    /\ c \in Callers
    /\ CanCall(c)
    /\ h \in handles
    /\ handles' = handles \ {h}
    /\ Enter(c, "fc_terminate", h, "tm_kill")
    /\ ret' = NoRet
    /\ checked' = NoCheck
    /\ UNCHANGED <<backend, Runs, Registry, fresh, reqs, proc, paused, Disk,
                   next_vm, next_snap, History>>

\* handle.process.kill() returns; on success remove_file(socket_path) is awaited,
\* on failure the handle is dropped with the error
FcTmKill(c) ==
    /\ pc[c] = "tm_kill"
    /\ \/ /\ proc' = [proc EXCEPT ![arg[c]] = "killed"]
          /\ pc' = [pc EXCEPT ![c] = "tm_unlink"]
          /\ ret' = NoRet
          /\ checked' = NoCheck
          /\ UNCHANGED <<op, arg, fresh, reqs>>
       \/ /\ proc' = DropChild(proc, arg[c])
          /\ \E e \in FcTerminateErrors : FcReturn(c, "fc_terminate", arg[c], e)
    /\ paused' = [paused EXCEPT ![arg[c]] = FALSE]
    /\ UNCHANGED <<backend, Runs, Registry, Disk, handles, next_vm, next_snap, History>>

\* a terminate that returns the error of remove_file
FcTmUnlinkPropagates(c) ==
    /\ pc[c] = "tm_unlink"
    /\ \/ /\ sockets' = sockets \ {arg[c]}
          /\ FcReturn(c, "fc_terminate", arg[c], Ok(NoId))
       \/ /\ UNCHANGED sockets
          /\ FcReturn(c, "fc_terminate", arg[c], Err("Io", NoId, <<"remove_file">>))
    /\ UNCHANGED <<backend, Runs, Registry, proc, paused, mem_files, state_files, handles,
                   next_vm, next_snap, History>>

\* remove_file(socket_path) returns and is ignored; terminate returns Ok
FcTmUnlink(c) ==
    /\ pc[c] = "tm_unlink"
    /\ \/ sockets' = sockets \ {arg[c]}
       \/ UNCHANGED sockets
    /\ FcReturn(c, "fc_terminate", arg[c], Ok(NoId))
    /\ UNCHANGED <<backend, Runs, Registry, proc, paused, mem_files, state_files, handles,
                   next_vm, next_snap, History>>

\* ----------------------------------- FirecrackerBackend::execute_command
\* the caller-supplied timeouts, in milliseconds
Timeouts == {1500, 2000}

ExecutePcs == <<"ex_boot_source", "ex_drives", "ex_machine_config", "ex_actions">>

\* what tokio::time::timeout returns when the deadline passes first
Elapsed == Err("Elapsed", NoId, <<"deadline has elapsed">>)

\* a message that carries the timeout in milliseconds
TimeoutErrorMillis(ms) == Err("SpawnFailed", NoId, <<"VM did not complete within ", ms, "s">>)

\* the error of an expired tokio::time::timeout: Duration::as_secs is the whole seconds
TimeoutError(ms) ==
    Err("SpawnFailed", NoId, <<"VM did not complete within ", ms \div 1000, "s">>)

\* backend.execute_command(config, command, timeout) is called: the KVM and binary
\* checks, a fresh vm_id, and create_dir_all(socket_dir) is awaited
FcExecute(c, ms) ==
    /\ c \in Callers
    /\ CanCall(c)
    /\ next_vm <= MaxVms
    /\ \E env \in Envs :
          IF ExecuteChecks(env).ok
          THEN /\ Enter(c, "fc_execute", ms, "ex_mkdir")
               /\ fresh' = [fresh EXCEPT ![c] = next_vm]
               /\ next_vm' = next_vm + 1
               /\ ret' = NoRet
               /\ checked' = [op |-> "fc_execute", res |-> ExecuteChecks(env), env |-> env]
               /\ UNCHANGED reqs
          ELSE /\ ReturnChecked(c, "fc_execute", ms, ExecuteChecks(env), env)
               /\ UNCHANGED next_vm
    /\ UNCHANGED <<backend, Runs, Registry, proc, paused, Disk, handles, next_snap, History>>

\* create_dir_all(socket_dir) returns; on success the VMM child is launched with its
\* stdout piped and wait_for_socket starts polling
FcExMkdir(c) ==
    /\ pc[c] = "ex_mkdir"
    /\ \/ /\ \E e \in FcLaunchErrors : FcReturn(c, "fc_execute", arg[c], e)
          /\ UNCHANGED proc
       \/ /\ proc' = [proc EXCEPT ![fresh[c]] = "running"]
          /\ pc' = [pc EXCEPT ![c] = "ex_wait"]
          /\ ret' = NoRet
          /\ checked' = NoCheck
          /\ UNCHANGED <<op, arg, fresh, reqs>>
    /\ UNCHANGED <<backend, Runs, Registry, paused, Disk, handles, next_vm, next_snap, History>>

\* wait_for_socket returns: the socket file appeared, or the polls ran out
FcExWait(c) ==
    /\ pc[c] = "ex_wait"
    /\ \/ /\ sockets' = sockets \cup {fresh[c]}
          /\ pc' = [pc EXCEPT ![c] = ExecutePcs[1]]
          /\ ret' = NoRet
          /\ checked' = NoCheck
          /\ UNCHANGED <<op, arg, fresh, reqs, proc>>
       \/ /\ FcReturn(c, "fc_execute", arg[c], WaitFailed("fc_execute", arg[c], fresh[c]))
          /\ proc' = DropChild(proc, fresh[c])
          /\ UNCHANGED sockets
    /\ UNCHANGED <<backend, Runs, Registry, paused, mem_files, state_files, handles,
                   next_vm, next_snap, History>>

\* the k-th request of configure_and_boot returns; after the last, the VMM's stdout
\* is read against the timeout
FcExConfigure(c, k) ==
    /\ pc[c] = ExecutePcs[k]
    /\ \E o \in ApiOutcomes(fresh[c]) :
          LET log == Append(reqs[c], Sent(ConfigureRequests[k], o)) IN
          IF ~o.ok
          THEN /\ FcReturnLog(c, "fc_execute", arg[c], ConfigureError(api_request(o)), log)
               /\ proc' = DropChild(proc, fresh[c])
          ELSE /\ pc' = [pc EXCEPT ![c] = IF k < Len(ExecutePcs) THEN ExecutePcs[k + 1]
                                                                  ELSE "ex_read"]
               /\ reqs' = [reqs EXCEPT ![c] = log]
               /\ ret' = NoRet
               /\ checked' = NoCheck
               /\ UNCHANGED <<op, arg, fresh, proc>>
    /\ UNCHANGED <<backend, Runs, Registry, paused, Disk, handles, next_vm, next_snap, History>>

\* an execute_command that also unlinks the socket when the deadline passes
FcExReadUnlinks(c) ==
    /\ pc[c] = "ex_read"
    /\ ReturnLog(c, "fc_execute", arg[c], Elapsed, TimeoutError(arg[c]), reqs[c])
    /\ proc' = DropChild(proc, fresh[c])
    /\ sockets' = sockets \ {fresh[c]}
    /\ UNCHANGED <<backend, Runs, Registry, paused, mem_files, state_files, handles,
                   next_vm, next_snap, History>>

\* timeout(timeout, read_to_end) returns: the deadline passed before EOF (Elapsed,
\* which map_err turns into the error returned), the read failed, or the VMM's stdout
\* reached EOF and process.wait() is awaited
FcExRead(c) ==
    /\ pc[c] = "ex_read"
    /\ \/ /\ ReturnLog(c, "fc_execute", arg[c], Elapsed, TimeoutError(arg[c]), reqs[c])
          /\ proc' = DropChild(proc, fresh[c])
       \/ /\ FcReturn(c, "fc_execute", arg[c], Err("Io", NoId, <<"read_to_end">>))
          /\ proc' = DropChild(proc, fresh[c])
       \/ /\ pc' = [pc EXCEPT ![c] = "ex_exit"]
          /\ ret' = NoRet
          /\ checked' = NoCheck
          /\ UNCHANGED <<op, arg, fresh, reqs, proc>>
    /\ UNCHANGED <<backend, Runs, Registry, paused, Disk, handles, next_vm, next_snap, History>>

\* process.wait() returns and its result is ignored: the VMM has exited, or the wait
\* failed; remove_file(socket_path) is awaited
FcExExit(c) ==
    /\ pc[c] = "ex_exit"
    /\ proc' \in {[proc EXCEPT ![fresh[c]] = "exited"], proc}
    /\ pc' = [pc EXCEPT ![c] = "ex_unlink"]
    /\ ret' = NoRet
    /\ checked' = NoCheck
    /\ UNCHANGED <<backend, Runs, Registry, op, arg, fresh, reqs, paused, Disk, handles,
                   next_vm, next_snap, History>>

\* remove_file returns and its result is ignored; the output is parsed and returned,
\* and the Child goes out of scope
FcExUnlink(c) ==
    /\ pc[c] = "ex_unlink"
    /\ sockets' \in {sockets \ {fresh[c]}, sockets}
    /\ proc' = DropChild(proc, fresh[c])
    /\ FcReturn(c, "fc_execute", arg[c], Ok(NoId))
    /\ UNCHANGED <<backend, Runs, Registry, paused, mem_files, state_files, handles,
                   next_vm, next_snap, History>>

\* ------------------------------------------------------------ its futures
\* the VMM children that the future of caller c owns at its await point pc[c]
FcChildOwnedAt(c) ==
    IF pc[c] \in {"sp_wait", "rs_wait", "rs_load", "ex_wait", "ex_read", "ex_exit", "ex_unlink"}
                \cup {ConfigurePcs[k] : k \in 1..Len(ConfigurePcs)}
                \cup {ExecutePcs[k] : k \in 1..Len(ExecutePcs)}
    THEN {fresh[c]}
    ELSE IF pc[c] \in {"tm_kill", "tm_unlink"}
    THEN {arg[c]}
    ELSE {}

\* the caller drops the future of its backend call at an await point
FcCancel(c) ==
    /\ c \in Callers
    /\ pc[c] # "idle"
    /\ proc' = [i \in VmIds |-> IF i \in FcChildOwnedAt(c) THEN DropChild(proc, i)[i] ELSE proc[i]]
    /\ paused' = [i \in VmIds |->
                    IF i \in FcChildOwnedAt(c) /\ proc[i] = "running" THEN FALSE ELSE paused[i]]
    /\ handles' = IF op[c] = "fc_snapshot" THEN handles \cup {arg[c]} ELSE handles
    /\ Clear(c)
    /\ ret' = NoRet
    /\ checked' = NoCheck
    /\ UNCHANGED <<backend, Runs, Registry, Disk, next_vm, next_snap, History>>

InitFc ==
    /\ backend = "Firecracker"
    /\ InitCommon
    /\ InitRuns

NextFc ==
    \/ \E c \in Callers : FcSpawn(c)
    \/ \E c \in Callers : FcSpMkdir(c)
    \/ \E c \in Callers : FcSpWait(c)
    \/ \E c \in Callers : \E k \in 1..Len(ConfigurePcs) : FcSpConfigure(c, k)
    \/ \E c \in Callers : \E h \in VmIds : FcSnapshot(c, h)
    \/ \E c \in Callers : FcSnMkdir(c)
    \/ \E c \in Callers : FcSnPause(c)
    \/ \E c \in Callers : FcSnCreate(c)
    \/ \E c \in Callers : FcSnResume(c)
    \/ \E c \in Callers : \E s \in SnapIds : FcRestore(c, s)
    \/ \E c \in Callers : FcRsMkdir(c)
    \/ \E c \in Callers : FcRsWait(c)
    \/ \E c \in Callers : FcRsLoad(c)
    \/ \E c \in Callers : \E h \in VmIds : FcTerminate(c, h)
    \/ \E c \in Callers : FcTmKill(c)
    \/ \E c \in Callers : FcTmUnlink(c)
    \/ \E c \in Callers : \E ms \in Timeouts : FcExecute(c, ms)
    \/ \E c \in Callers : FcExMkdir(c)
    \/ \E c \in Callers : FcExWait(c)
    \/ \E c \in Callers : \E k \in 1..Len(ExecutePcs) : FcExConfigure(c, k)
    \/ \E c \in Callers : FcExRead(c)
    \/ \E c \in Callers : FcExExit(c)
    \/ \E c \in Callers : FcExUnlink(c)
    \/ \E c \in Callers : FcCancel(c)
    \/ \E h \in VmIds : DropHandle(h)

SpecFc == InitFc /\ [][NextFc]_vars

\* ============================ SpecWait: FirecrackerBackend::wait_for_socket
\* One wait_for_socket, step by step: each existence check and each sleep is a step,
\* and the VMM binds its socket whenever it gets to it, or never.

\* `for _ in 0..50u8`: the number of iterations of the polling loop
SocketPolls == 50

\* `Duration::from_millis(100)`: the sleep after a check that found nothing
PollMillis == 100

\* the positions inside wait_for_socket: before `socket_path.exists()`, and in `sleep`
WaitPcs == {"ws_check", "ws_sleep"}

\* where the caller goes on when wait_for_socket returns Ok(())
AfterWait(m) ==
    CASE m = "fc_spawn" -> ConfigurePcs[1]
      [] m = "fc_restore" -> "rs_load"
      [] m = "fc_execute" -> ExecutePcs[1]

\* a loop that gives up after one iteration
wait_for_socket_exhausted_early(n) == n >= 1

\* the range 0..50 is used up after n iterations
wait_for_socket_exhausted(n) == n >= SocketPolls

\* the VMM child binds its API socket: <socket_dir>/<vm_id>.sock appears
VmmBinds(c) ==
    /\ pc[c] \in WaitPcs
    /\ proc[fresh[c]] = "running"
    /\ fresh[c] \notin sockets
    /\ sockets' = sockets \cup {fresh[c]}
    /\ UNCHANGED <<backend, Registry, pc, op, arg, fresh, reqs, ret, checked, proc, paused,
                   mem_files, state_files, handles, next_vm, next_snap, History,
                   call, guest, serial, output, record, prev, polls, entries, audit>>

\* `if socket_path.exists() { return Ok(()) }`: one check; when the file is there the
\* caller goes on, otherwise the sleep starts
WaitCheck(c) ==
    /\ pc[c] = "ws_check"
    /\ polls' = [polls EXCEPT !.checks = @ + 1]
    /\ pc' = [pc EXCEPT ![c] = IF fresh[c] \in sockets THEN AfterWait(op[c]) ELSE "ws_sleep"]
    /\ UNCHANGED <<backend, Registry, op, arg, fresh, reqs, ret, checked, proc, paused, Disk,
                   handles, next_vm, next_snap, History,
                   call, guest, serial, output, record, prev, entries, audit>>

\* `sleep(100 ms).await` returns: the next iteration checks again, and when the range
\* is used up wait_for_socket returns its error, which the caller returns as its own,
\* dropping the child
WaitSleep(c) ==
    /\ pc[c] = "ws_sleep"
    /\ polls' = [polls EXCEPT !.slept = @ + PollMillis]
    /\ IF wait_for_socket_exhausted(polls.checks)
       THEN /\ FcReturn(c, op[c], arg[c], WaitFailed(op[c], arg[c], fresh[c]))
            /\ proc' = DropChild(proc, fresh[c])
       ELSE /\ pc' = [pc EXCEPT ![c] = "ws_check"]
            /\ UNCHANGED <<op, arg, fresh, reqs, ret, checked, proc>>
    /\ UNCHANGED <<backend, Registry, paused, Disk, handles, next_vm, next_snap, History,
                   call, guest, serial, output, record, prev, entries, audit>>

\* spawn, restore or execute_command has launched its VMM and calls wait_for_socket;
\* a restore restores the snapshot taken of a VM spawned before
InitWait ==
    /\ backend = "Firecracker"
    /\ active_vms = {}
    /\ mutex = NoTask
    /\ \E m \in VmOps :
          LET id == IF m = "fc_restore" THEN 2 ELSE 1
              before == IF m = "fc_restore" THEN {1} ELSE {}
          IN
          /\ op = [t \in Slots |-> IF t = 1 THEN m ELSE "none"]
          /\ pc = [t \in Slots |-> IF t = 1 THEN "ws_check" ELSE "idle"]
          /\ \E a \in IF m = "fc_execute" THEN Timeouts ELSE {IF m = "fc_restore" THEN 1 ELSE NoId} :
                arg = [t \in Slots |-> IF t = 1 THEN a ELSE NoId]
          /\ fresh = [t \in Slots |-> IF t = 1 THEN id ELSE NoId]
          /\ proc = [i \in VmIds |-> IF i = id \/ i \in before THEN "running" ELSE "none"]
          /\ sockets = before
          /\ mem_files = before
          /\ state_files = before
          /\ handles = before
          /\ acked = before
          /\ next_vm = id + 1
          /\ next_snap = IF m = "fc_restore" THEN 2 ELSE 1
    /\ reqs = [t \in Slots |-> <<>>]
    /\ ret = NoRet
    /\ checked = NoCheck
    /\ paused = [i \in VmIds |-> FALSE]
    /\ net_ok = 0
    /\ mark = [i \in VmIds |-> -1]
    /\ InitRuns

NextWait ==
    \/ \E c \in Callers : VmmBinds(c)
    \/ \E c \in Callers : WaitCheck(c)
    \/ \E c \in Callers : WaitSleep(c)

\* the runtime polls the future: a check that is due is made, and the timer fires
SpecWait ==
    /\ InitWait
    /\ [][NextWait]_vars
    /\ WF_vars(\E c \in Callers : WaitCheck(c) \/ WaitSleep(c))

\* ============================== SpecHealth: FirecrackerBackend::health_check
\* what the host answers to health_check: whether /dev/kvm exists, whether its
\* metadata can be read, whether binary_path is absolute and exists as given, and for
\* each directory of PATH whether it holds the binary
HealthEnvs ==
    { [kvm |-> k, meta |-> m, abs |-> a, exists |-> x, dirs |-> d,
       in_path |-> \E i \in 1..Len(d) : d[i]] :
         k \in BOOLEAN, m \in BOOLEAN, a \in BOOLEAN, x \in BOOLEAN,
         d \in UNION { [1..n -> BOOLEAN] : n \in 0..MaxDirs } }

\* a health check that looks for the binary first
health_check_binary_first(env) ==
    IF ~which_binary(env).ok THEN which_binary(env)
    ELSE IF ~env.kvm THEN Err("KvmUnavailable", NoId, <<"/dev/kvm not found">>)
    ELSE IF ~env.meta
    THEN Err("KvmUnavailable", NoId, <<"cannot access /dev/kvm (permission denied?)">>)
    ELSE Ok(NoId)

\* FirecrackerBackend::health_check
health_check(env) ==
    IF ~env.kvm THEN Err("KvmUnavailable", NoId, <<"/dev/kvm not found">>)
    ELSE IF ~env.meta
    THEN Err("KvmUnavailable", NoId, <<"cannot access /dev/kvm (permission denied?)">>)
    ELSE IF ~which_binary(env).ok THEN which_binary(env)
    ELSE Ok(NoId)

\* backend.health_check() is called and returns
HealthCheck(env) ==
    /\ checked' = [op |-> "health_check", res |-> health_check(env), env |-> env]
    /\ ret' = NoRet
    /\ UNCHANGED <<backend, Runs, Registry, pc, op, arg, fresh, reqs, proc, paused, Disk,
                   handles, next_vm, next_snap, History>>

InitHealth == InitFc

NextHealth == \E env \in HealthEnvs : HealthCheck(env)

SpecHealth == InitHealth /\ [][NextHealth]_vars

\* ================ SpecParse: the serial-console output parser of execute_command
\* ------------------------------------------------------------- byte strings
\* the byte values the guest's output is made of: base64 turns their strings into
\* characters of every kind of the alphabet, '+', '/' and '=' included
Bytes == {0, 251}

\* what the guest's command writes to a stream
ByteStrings == UNION { [1..n -> Bytes] : n \in 0..MaxLen }

\* the exit codes of the guest's command
Codes == {-2147483647 - 1, -1, 0, 42}

\* b"FORGE_STDOUT_B64_START" and the other markers, as ASCII
FORGE_STDOUT_B64_START ==
    <<70, 79, 82, 71, 69, 95, 83, 84, 68, 79, 85, 84, 95, 66, 54, 52, 95, 83, 84, 65,
      82, 84>>
FORGE_STDOUT_B64_END ==
    <<70, 79, 82, 71, 69, 95, 83, 84, 68, 79, 85, 84, 95, 66, 54, 52, 95, 69, 78, 68>>
FORGE_STDERR_B64_START ==
    <<70, 79, 82, 71, 69, 95, 83, 84, 68, 69, 82, 82, 95, 66, 54, 52, 95, 83, 84, 65,
      82, 84>>
FORGE_STDERR_B64_END ==
    <<70, 79, 82, 71, 69, 95, 83, 84, 68, 69, 82, 82, 95, 66, 54, 52, 95, 69, 78, 68>>
FORGE_EXIT == <<70, 79, 82, 71, 69, 95, 69, 88, 73, 84, 58>>
CRLF == <<13, 10>>

\* b"kernel boot noise"
KernelBootNoise ==
    <<107, 101, 114, 110, 101, 108, 32, 98, 111, 111, 116, 32, 110, 111, 105, 115,
      101>>

\* Option<T>
Some(v) == [some |-> TRUE, val |-> v]
None == [some |-> FALSE, val |-> <<>>]

\* ------------------------------------------------- base64, standard alphabet
\* the character of a six-bit value: A-Z, a-z, 0-9, '+', '/'
B64Char(v) ==
    IF v < 26 THEN 65 + v
    ELSE IF v < 52 THEN 71 + v
    ELSE IF v < 62 THEN v - 4
    ELSE IF v = 62 THEN 43 ELSE 47

\* the URL-safe alphabet: '-' and '_' for 62 and 63
B64ValUrlSafe(ch) ==
    IF ch \in 65..90 THEN ch - 65
    ELSE IF ch \in 97..122 THEN ch - 71
    ELSE IF ch \in 48..57 THEN ch + 4
    ELSE IF ch = 45 THEN 62
    ELSE IF ch = 95 THEN 63
    ELSE -1

\* the six-bit value of a character, -1 for a byte outside the alphabet
B64Val(ch) ==
    IF ch \in 65..90 THEN ch - 65
    ELSE IF ch \in 97..122 THEN ch - 71
    ELSE IF ch \in 48..57 THEN ch + 4
    ELSE IF ch = 43 THEN 62
    ELSE IF ch = 47 THEN 63
    ELSE -1

\* STANDARD.encode: three bytes give four characters, the last group is padded with '='
b64encode(s) ==
    LET n == Len(s)
        At(i) == IF i <= n THEN s[i] ELSE 0
        Ch(p) == LET g == (p - 1) \div 4
                     j == (p - 1) % 4
                     b1 == At(3 * g + 1)
                     b2 == At(3 * g + 2)
                     b3 == At(3 * g + 3)
                 IN CASE j = 0 -> B64Char(b1 \div 4)
                      [] j = 1 -> B64Char((b1 % 4) * 16 + b2 \div 16)
                      [] j = 2 -> IF 3 * g + 2 > n THEN 61
                                  ELSE B64Char((b2 % 16) * 4 + b3 \div 64)
                      [] j = 3 -> IF 3 * g + 3 > n THEN 61 ELSE B64Char(b3 % 64)
    IN [p \in 1..(4 * ((n + 2) \div 3)) |-> Ch(p)]

\* STANDARD.decode(..).ok(): whole groups of four characters of the alphabet, canonical
\* '=' padding in the last group only, no stray bits in the last character
b64decode(t) ==
    LET n == Len(t)
        pads == IF n = 0 \/ t[n] # 61 THEN 0 ELSE IF t[n - 1] # 61 THEN 1 ELSE 2
        V(p) == B64Val(t[p])
        Byte(i) == LET g == (i - 1) \div 3
                       j == (i - 1) % 3
                   IN CASE j = 0 -> V(4 * g + 1) * 4 + V(4 * g + 2) \div 16
                        [] j = 1 -> (V(4 * g + 2) % 16) * 16 + V(4 * g + 3) \div 4
                        [] j = 2 -> (V(4 * g + 3) % 4) * 64 + V(4 * g + 4)
    IN IF n % 4 # 0 THEN None
       ELSE IF /\ \A p \in 1..(n - pads) : V(p) >= 0
               /\ pads = 1 => V(n - 1) % 4 = 0
               /\ pads = 2 => V(n - 2) % 16 = 0
       THEN Some([i \in 1..(3 * (n \div 4) - pads) |-> Byte(i)])
       ELSE None

\* ------------------------------------------------------- decimal integers
\* the decimal digits of n >= 0
RECURSIVE Digits(_)
Digits(n) == IF n < 10 THEN <<48 + n>> ELSE Append(Digits(n \div 10), 48 + (n % 10))

\* format!("{exit_code}") of an i32: '-' and the digits of the magnitude, which for
\* n < 0 is -(n + 1) + 1
Decimal(n) ==
    IF n >= 0 THEN Digits(n)
    ELSE LET m == -(n + 1)
         IN <<45>> \o (IF m % 10 = 9 THEN Digits(m + 1)
                       ELSE IF m < 10 THEN <<49 + m>>
                       ELSE Append(Digits(m \div 10), 49 + (m % 10)))

\* str::trim on ASCII: the white space at both ends goes
trim(t) ==
    LET keep == {i \in 1..Len(t) : t[i] \notin {9, 10, 11, 12, 13, 32}}
    IN IF keep = {} THEN <<>>
       ELSE SubSeq(t, CHOOSE i \in keep : \A j \in keep : i <= j,
                      CHOOSE i \in keep : \A j \in keep : i >= j)

\* the value of the digits ds added to acc with sign sgn
RECURSIVE Accumulate(_, _, _)
Accumulate(ds, acc, sgn) ==
    IF ds = <<>> THEN acc
    ELSE Accumulate(Tail(ds), acc * 10 + sgn * (Head(ds) - 48), sgn)

\* str::parse::<i32>: an optional sign, at least one digit, digits only, and a value
\* within the 32 bits
parse_i32(t) ==
    LET neg == t # <<>> /\ t[1] = 45
        ds == IF t # <<>> /\ t[1] \in {43, 45} THEN Tail(t) ELSE t
        zeros == {i \in 1..Len(ds) : \A j \in 1..i : ds[j] = 48}
        sig == SubSeq(ds, Cardinality(zeros) + 1, Len(ds))
        limit == IF neg THEN Decimal(-2147483647 - 1) ELSE <<43>> \o Decimal(2147483647)
        over == \/ Len(sig) > 10
                \/ /\ Len(sig) = 10
                   /\ \E i \in 1..10 : /\ sig[i] > limit[i + 1]
                                       /\ \A j \in 1..(i - 1) : sig[j] = limit[j + 1]
    IN IF ds = <<>> \/ (\E i \in 1..Len(ds) : ds[i] \notin 48..57) \/ over THEN None
       ELSE Some(Accumulate(sig, 0, IF neg THEN -1 ELSE 1))

\* ---------------------------------------------------------------- the parser
\* raw.windows(pat.len()).position(|w| w == pat) from index from on: the index of the
\* first occurrence of pat, 0 when there is none
Find(raw, pat, from) ==
    LET hits == {i \in from..(Len(raw) - Len(pat) + 1) :
                    raw[i] = pat[1] /\ SubSeq(raw, i, i + Len(pat) - 1) = pat}
    IN IF hits = {} THEN 0 ELSE CHOOSE i \in hits : \A j \in hits : i <= j

\* an extraction that takes the start marker whatever follows it
extract_b64_section_bare_start(raw, start_marker, end_marker) ==
    LET p == Find(raw, start_marker, 1)
        content_start == p + Len(start_marker)
        content_end == Find(raw, end_marker, content_start)
        b64_clean == SelectSeq(SubSeq(raw, content_start, content_end - 1),
                               LAMBDA b : b \notin {13, 10})
    IN IF p = 0 \/ content_end = 0 THEN None ELSE b64decode(b64_clean)

\* extract_b64_section
extract_b64_section(raw, start_marker, end_marker) ==
    LET start_with_crlf == start_marker \o CRLF
        p == Find(raw, start_with_crlf, 1)
        content_start == p + Len(start_with_crlf)
        content_end == Find(raw, end_marker, content_start)
        b64_clean == SelectSeq(SubSeq(raw, content_start, content_end - 1),
                               LAMBDA b : b \notin {13, 10})
    IN IF p = 0 \/ content_end = 0 THEN None ELSE b64decode(b64_clean)

\* an exit code searched for after the stderr section only
extract_exit_code_after_stderr(raw) ==
    LET e == Find(raw, FORGE_STDERR_B64_END, 1)
        p == Find(raw, FORGE_EXIT, IF e = 0 THEN 1 ELSE e)
        value_start == p + Len(FORGE_EXIT)
        eols == {i \in value_start..Len(raw) : raw[i] \in {13, 10}}
        value_end == IF eols = {} THEN Len(raw) + 1
                     ELSE CHOOSE i \in eols : \A j \in eols : i <= j
        text == SubSeq(raw, value_start, value_end - 1)
    IN IF p = 0 \/ (\E i \in 1..Len(text) : text[i] > 127) THEN None
       ELSE parse_i32(trim(text))

\* extract_exit_code; from_utf8 and parse accept no byte above 127
extract_exit_code(raw) ==
    LET p == Find(raw, FORGE_EXIT, 1)
        value_start == p + Len(FORGE_EXIT)
        eols == {i \in value_start..Len(raw) : raw[i] \in {13, 10}}
        value_end == IF eols = {} THEN Len(raw) + 1
                     ELSE CHOOSE i \in eols : \A j \in eols : i <= j
        text == SubSeq(raw, value_start, value_end - 1)
    IN IF p = 0 \/ (\E i \in 1..Len(text) : text[i] > 127) THEN None
       ELSE parse_i32(trim(text))

\* ExecutionOutput
ExecutionOutput(out, err, code) == [stdout |-> out, stderr |-> err, exit_code |-> code]

\* a parser that keeps what it found and fills in the rest
parse_execution_output_partial(raw) ==
    LET stdout == extract_b64_section(raw, FORGE_STDOUT_B64_START, FORGE_STDOUT_B64_END)
        stderr == extract_b64_section(raw, FORGE_STDERR_B64_START, FORGE_STDERR_B64_END)
        exit_code == extract_exit_code(raw)
    IN ExecutionOutput(IF stdout.some THEN stdout.val ELSE raw,
                       IF stderr.some THEN stderr.val ELSE <<>>,
                       IF exit_code.some THEN exit_code.val ELSE -1)

\* parse_execution_output
parse_execution_output(raw) ==
    LET stdout == extract_b64_section(raw, FORGE_STDOUT_B64_START, FORGE_STDOUT_B64_END)
        stderr == extract_b64_section(raw, FORGE_STDERR_B64_START, FORGE_STDERR_B64_END)
        exit_code == extract_exit_code(raw)
    IN IF stdout.some /\ stderr.some /\ exit_code.some
       THEN ExecutionOutput(stdout.val, stderr.val, exit_code.val)
       ELSE ExecutionOutput(raw, <<>>, -1)

\* --------------------------------------------------------- the serial stream
\* the serial framing of (stdout, stderr, exit_code) after the boot noise
make_b64_output(noise, stdout, stderr, exit_code) ==
    noise \o CRLF
    \o FORGE_STDOUT_B64_START \o CRLF \o b64encode(stdout) \o CRLF
    \o FORGE_STDOUT_B64_END \o CRLF
    \o FORGE_STDERR_B64_START \o CRLF \o b64encode(stderr) \o CRLF
    \o FORGE_STDERR_B64_END \o CRLF
    \o FORGE_EXIT \o Decimal(exit_code) \o CRLF

\* what precedes the frame on the console
Noises == {<<>>, KernelBootNoise}

\* the whole frames of what guest g wrote
Frames(g) == { make_b64_output(n, g.stdout, g.stderr, g.code) : n \in Noises }

\* a frame that ends early: before one of its markers, or right after FORGE_EXIT:
Truncated(s) ==
    { SubSeq(s, 1, Find(s, m, 1) - 1) :
         m \in {FORGE_STDOUT_B64_START, FORGE_STDOUT_B64_END, FORGE_STDERR_B64_START,
                FORGE_STDERR_B64_END, FORGE_EXIT} }
    \cup { SubSeq(s, 1, Find(s, FORGE_EXIT, 1) + Len(FORGE_EXIT) - 1) }

\* a frame with a console message in the middle of a base64 payload
Interleaved(s) ==
    { LET at == Find(s, m, 1) - 1
      IN SubSeq(s, 1, at) \o <<91>> \o KernelBootNoise \o <<93>> \o CRLF
         \o SubSeq(s, at + 1, Len(s)) :
         m \in {FORGE_STDOUT_B64_END, FORGE_STDERR_B64_END} }

\* the frame of (stdout, stderr, exit_code) with the line ending t[k] after its k-th
\* marker: stdout START and END, stderr START and END, FORGE_EXIT:<N>
Terminated(noise, stdout, stderr, exit_code, t) ==
    noise \o CRLF
    \o FORGE_STDOUT_B64_START \o t[1] \o b64encode(stdout) \o CRLF
    \o FORGE_STDOUT_B64_END \o t[2]
    \o FORGE_STDERR_B64_START \o t[3] \o b64encode(stderr) \o CRLF
    \o FORGE_STDERR_B64_END \o t[4]
    \o FORGE_EXIT \o Decimal(exit_code) \o t[5]

LF == <<10>>

\* a console that ends the line of one START marker with LF alone
LfStart(g) ==
    { Terminated(KernelBootNoise, g.stdout, g.stderr, g.code, t) :
         t \in {<<LF, CRLF, CRLF, CRLF, CRLF>>, <<CRLF, CRLF, LF, CRLF, CRLF>>} }

\* the line endings of the END markers and of FORGE_EXIT:<N> when one of them, or each
\* of them, is not CR LF: LF alone, or none at all
LooseEndings ==
    { [k \in 1..5 |-> IF k \in ks THEN e ELSE CRLF] :
         ks \in {{2}, {4}, {5}, {2, 4, 5}}, e \in {<<>>, LF} }

\* a console that ends the lines of END markers or of FORGE_EXIT:<N> otherwise
LooseEnds(g) ==
    { Terminated(KernelBootNoise, g.stdout, g.stderr, g.code, t) : t \in LooseEndings }

\* the frame alone: from FORGE_STDOUT_B64_START to the end of the FORGE_EXIT:<N> line
Frame(g) ==
    LET s == make_b64_output(<<>>, g.stdout, g.stderr, g.code)
    IN SubSeq(s, Len(CRLF) + 1, Len(s))

\* console output before the frame that holds marker text of its own: a line
\* FORGE_EXIT:7, a whole stdout or stderr section carrying the one byte 0, an stderr
\* START line that nothing closes, and marker text that is no parser pattern
ExitNoise == KernelBootNoise \o CRLF \o FORGE_EXIT \o <<55>> \o CRLF
StdoutNoise ==
    FORGE_STDOUT_B64_START \o CRLF \o b64encode(<<0>>) \o CRLF \o FORGE_STDOUT_B64_END \o CRLF
StderrNoise ==
    FORGE_STDERR_B64_START \o CRLF \o b64encode(<<0>>) \o CRLF \o FORGE_STDERR_B64_END \o CRLF
OpenStartNoise == FORGE_STDERR_B64_START \o CRLF \o KernelBootNoise \o CRLF
HarmlessNoise ==
    FORGE_STDOUT_B64_START \o LF \o FORGE_STDERR_B64_START \o FORGE_STDERR_B64_END \o CRLF
    \o SubSeq(FORGE_EXIT, 1, Len(FORGE_EXIT) - 1) \o CRLF \o FORGE_STDOUT_B64_END \o CRLF
MarkerNoises == {ExitNoise, StdoutNoise, StderrNoise, OpenStartNoise, HarmlessNoise}

\* a frame after console output that holds marker text
Noisy(g) == { n \o Frame(g) : n \in MarkerNoises }

\* the streams the VMM's stdout may yield when guest g ran
Streams(g) ==
    Frames(g) \cup Truncated(make_b64_output(KernelBootNoise, g.stdout, g.stderr, g.code))
              \cup Interleaved(make_b64_output(KernelBootNoise, g.stdout, g.stderr, g.code))
              \cup LfStart(g) \cup LooseEnds(g) \cup Noisy(g)

\* ------------------------------------------------------------------ the spec
\* the commands the guest may run: what they write and how they exit
Guests == [stdout : ByteStrings, stderr : ByteStrings, code : Codes, ran : {FALSE}]

\* Ok(ExecutionOutput)
OkOutput(o) == [ok |-> TRUE, kind |-> "Ok", id |-> NoId, reason |-> <<>>, out |-> o]

\* read_to_end returns the bytes of the console after the guest ran its command
ReadToEnd(stream) ==
    /\ ~guest.ran
    /\ stream \in Streams(guest)
    /\ guest' = [guest EXCEPT !.ran = TRUE]
    /\ serial' = stream
    /\ ret' = NoRet
    /\ checked' = NoCheck
    /\ UNCHANGED <<backend, polls, entries, audit, call, output, record, prev, Registry, pc, op, arg, fresh, reqs, proc,
                   paused, Disk, handles, next_vm, next_snap, History>>

\* execute_command parses the bytes and returns Ok(ExecutionOutput)
ParseOutput ==
    /\ guest.ran
    /\ output.kind = "none"
    /\ output' = OkOutput(parse_execution_output(serial))
    /\ ret' = NoRet
    /\ checked' = NoCheck
    /\ UNCHANGED <<backend, polls, entries, audit, call, guest, serial, record, prev, Registry, pc, op, arg, fresh, reqs,
                   proc, paused, Disk, handles, next_vm, next_snap, History>>

InitParse ==
    /\ backend = "Firecracker"
    /\ InitCommon
    /\ call = NoCall
    /\ guest \in Guests
    /\ serial = <<>>
    /\ output = NoRes
    /\ record = NoRes
    /\ prev = NoRes
    /\ polls = NoPolls
    /\ entries = <<>>
    /\ audit = NoAudit

NextParse ==
    \/ \E stream \in Streams(guest) : ReadToEnd(stream)
    \/ ParseOutput

SpecParse == InitParse /\ [][NextParse]_vars

\* ======================================== SpecRun: BlockRunner::execute
\* SHA-256, taken as injective: the digest stands for the one message that has it
Sha256(m) == <<"sha256", m>>

\* compute_hash: the hasher is fed stdout, then stderr
compute_hash(stdout, stderr) == Sha256(stdout \o stderr)

\* an output hash that also covers the exit code
output_hash_with_exit_code(o) == Sha256(o.stdout \o o.stderr \o Decimal(o.exit_code))

\* the output hash of BlockRunner::execute
output_hash(o) == compute_hash(o.stdout, o.stderr)

\* a status that follows the exit code
execution_status_by_exit_code(o) == IF o.exit_code = 0 THEN "Succeeded" ELSE "Failed"

\* the status BlockRunner::execute records for the output o
execution_status(o) == "Succeeded"

\* the blocks, the inputs, the clock readings, the elapsed times, the fresh execution
\* ids and the exit codes of the runs
BlockIds == {1, 2}
Inputs == {<<>>, <<0>>}
Instants == {1, 2}
Durations == {1, 2}
ExecutionIds == {1, 2}
ExitCodes == {0, 1}

\* ExecutionRecord::new, with the ExecutionId::new() it draws
ExecutionRecord(id, block_id, user_id, input_hash, out_hash, started_at, duration, status) ==
    [id |-> id, block_id |-> block_id, user_id |-> user_id, input_hash |-> input_hash,
     output_hash |-> out_hash, started_at |-> started_at, duration |-> duration,
     vm_snapshot_id |-> NoId, status |-> status]

\* Ok(ExecutionRecord)
OkRecord(r) == [ok |-> TRUE, kind |-> "Ok", id |-> NoId, reason |-> <<>>, rec |-> r]

\* the errors execute_command returns to the runner
ExecuteCommandErrors ==
    ({ExecuteChecks(env) : env \in Envs} \ {Ok(NoId)})
    \cup FcLaunchErrors
    \cup {SocketTimeout(NoId)}
    \cup {ConfigureError(e) : e \in ApiErrors}
    \cup {TimeoutError(30000), Err("Io", NoId, <<"read_to_end">>)}

\* runner.execute(block, input) is called: the input is hashed, the clock read, and
\* backend.execute_command is awaited
RunnerExecute(b, input, now) ==
    /\ ~call.running
    /\ call' = [block |-> b, input |-> input, input_hash |-> compute_hash(input, <<>>),
                started_at |-> now, running |-> TRUE]
    /\ prev' = IF record.ok
               THEN [ok |-> TRUE, stdout |-> output.out.stdout, stderr |-> output.out.stderr,
                     exit_code |-> output.out.exit_code, id |-> record.rec.id,
                     output_hash |-> record.rec.output_hash]
               ELSE prev
    /\ output' = NoRes
    /\ record' = NoRes
    /\ ret' = NoRet
    /\ checked' = NoCheck
    /\ UNCHANGED <<backend, polls, entries, audit, guest, serial, Registry, pc, op, arg, fresh, reqs, proc, paused,
                   Disk, handles, next_vm, next_snap, History>>

\* execute_command returns the output of the guest's command, which wrote its two
\* byte strings to stdout and stderr one way or the other: the runner hashes it and
\* returns the record
ExecuteCommandReturns(swap, code, d, id) ==
    /\ call.running
    /\ LET o == ExecutionOutput(IF swap THEN guest.stderr ELSE guest.stdout,
                                IF swap THEN guest.stdout ELSE guest.stderr, code)
       IN /\ guest' = [stdout |-> o.stdout, stderr |-> o.stderr, code |-> code, ran |-> TRUE]
          /\ output' = OkOutput(o)
          /\ record' = OkRecord(ExecutionRecord(id, call.block, "forge-runner",
                                                call.input_hash, output_hash(o),
                                                call.started_at, d, execution_status(o)))
    /\ call' = [call EXCEPT !.running = FALSE]
    /\ ret' = NoRet
    /\ checked' = NoCheck
    /\ UNCHANGED <<backend, polls, entries, audit, serial, prev, Registry, pc, op, arg, fresh, reqs, proc, paused,
                   Disk, handles, next_vm, next_snap, History>>

\* execute_command returns an error, and the runner's `?` returns it
ExecuteCommandFails(e) ==
    /\ call.running
    /\ output' = e
    /\ record' = Propagate(e)
    /\ call' = [call EXCEPT !.running = FALSE]
    /\ ret' = NoRet
    /\ checked' = NoCheck
    /\ UNCHANGED <<backend, polls, entries, audit, guest, serial, prev, Registry, pc, op, arg, fresh, reqs, proc,
                   paused, Disk, handles, next_vm, next_snap, History>>

\* the block's command writes two byte strings of MaxLen bytes in all
InitRun ==
    /\ backend = "Firecracker"
    /\ InitCommon
    /\ call = NoCall
    /\ guest \in { g \in Guests : Len(g.stdout) + Len(g.stderr) <= MaxLen /\ g.code = 0 }
    /\ serial = <<>>
    /\ output = NoRes
    /\ record = NoRes
    /\ prev = NoRes
    /\ polls = NoPolls
    /\ entries = <<>>
    /\ audit = NoAudit

NextRun ==
    \/ \E b \in BlockIds : \E input \in Inputs : \E now \in Instants :
          RunnerExecute(b, input, now)
    \/ \E swap \in BOOLEAN : \E code \in ExitCodes : \E d \in Durations :
          \E id \in ExecutionIds : ExecuteCommandReturns(swap, code, d, id)
    \/ \E e \in ExecuteCommandErrors : ExecuteCommandFails(e)

SpecRun == InitRun /\ [][NextRun]_vars

\* ================================================ SpecPool: SandboxPool
\* The gateway's registry of sandboxes.  Each method takes the RwLock once and holds
\* it for its one map operation, so each call is one step; Uuid::new_v4() is the
\* counter next_vm.
MaxSandboxes == 3
PoolIds == 1..MaxSandboxes

\* the `runtime` argument of create
Runtimes == {"node", "python"}

\* SandboxEntry; created_at is stored and never read
SandboxEntry(id, runtime) == [id |-> id, runtime |-> runtime]

\* the keys of the map
Keys(m) == {m[i].id : i \in DOMAIN m}

\* IndexMap::contains_key
contains_key(m, id) == id \in Keys(m)

\* IndexMap::insert: a new key is appended, the value of a present key is replaced
insert(m, id, e) ==
    IF contains_key(m, id)
    THEN [i \in DOMAIN m |-> IF m[i].id = id THEN e ELSE m[i]]
    ELSE Append(m, e)

\* a removal that drops the entry and all that were inserted after it
shift_remove_truncating(m, id) ==
    IF contains_key(m, id)
    THEN SubSeq(m, 1, (CHOOSE i \in DOMAIN m : m[i].id = id) - 1)
    ELSE m

\* IndexMap::shift_remove: the entry is taken out, the order of the others is kept
shift_remove(m, id) == SelectSeq(m, LAMBDA e : e.id # id)

\* the call m(id) returned value
PoolReturn(m, id, value) == [NoRet EXCEPT !.op = m, !.arg = id, !.res = value]

\* SandboxPool::create(runtime)
PoolCreate(runtime) ==
    /\ next_vm <= MaxSandboxes
    /\ entries' = insert(entries, next_vm, SandboxEntry(next_vm, runtime))
    /\ next_vm' = next_vm + 1
    /\ ret' = PoolReturn("pool_create", NoId, next_vm)
    /\ UNCHANGED <<backend, Registry, pc, op, arg, fresh, reqs, checked, proc, paused, Disk,
                   handles, next_snap, History, call, guest, serial, output, record, prev,
                   polls, audit>>

\* SandboxPool::remove(id)
PoolRemove(id) ==
    /\ entries' = shift_remove(entries, id)
    /\ ret' = PoolReturn("pool_remove", id, contains_key(entries, id))
    /\ UNCHANGED <<backend, Registry, pc, op, arg, fresh, reqs, checked, proc, paused, Disk,
                   handles, next_vm, next_snap, History, call, guest, serial, output, record,
                   prev, polls, audit>>

\* SandboxPool::contains(id)
PoolContains(id) ==
    /\ ret' = PoolReturn("pool_contains", id, contains_key(entries, id))
    /\ UNCHANGED <<backend, Registry, pc, op, arg, fresh, reqs, checked, proc, paused, Disk,
                   handles, next_vm, next_snap, History, call, guest, serial, output, record,
                   prev, polls, entries, audit>>

\* SandboxPool::new()
InitPool ==
    /\ backend = "Firecracker"
    /\ InitCommon
    /\ InitRuns

NextPool ==
    \/ \E runtime \in Runtimes : PoolCreate(runtime)
    \/ \E id \in PoolIds : PoolRemove(id)
    \/ \E id \in PoolIds : PoolContains(id)

SpecPool == InitPool /\ [][NextPool]_vars

\* ================================================================ claims
\* C1: snapshot(handle) and terminate(handle) with a handle whose id is not in the
\* registry return VmNotFound carrying that id, without invoking the backend and
\* without changing the registry; with a registered id they never return VmNotFound.
C1_UnregisteredIsVmNotFound ==
    ret.op \in {"snapshot", "terminate"} =>
        IF ret.arg \notin ret.reg0
        THEN /\ ret.res = Err("VmNotFound", ret.arg, <<>>)
             /\ ret.bres = NoRes
             /\ active_vms = ret.reg0
        ELSE ret.res.kind # "VmNotFound"

C1_Witness ==
    /\ ret.op = "terminate"
    /\ ret.res.kind = "VmNotFound"
    /\ ret.reg0 # {}

\* C2: terminate on a registered id removes the id from the registry if and only if
\* the backend's terminate returned Ok; when the backend's terminate fails, its error
\* is returned and the id remains registered.
C2_TerminateRemovesIffBackendOk ==
    (ret.op = "terminate" /\ ret.arg \in ret.reg0) =>
        /\ ret.bres.ok <=> ret.arg \notin active_vms
        /\ ret.bres.ok => ret.res.ok /\ active_vms = ret.reg0 \ {ret.arg}
        /\ ~ret.bres.ok => IsErr(ret.bres) /\ ret.res = ret.bres /\ active_vms = ret.reg0

C2_Witness ==
    /\ ret.op = "terminate"
    /\ ret.res.kind = "Io"
    /\ ret.arg \in active_vms

\* C3: when spawn or restore returns Ok(handle), handle.id is in the registry at the
\* moment of return, it is the id of the backend's handle, and the call added no
\* other id and removed none.
C3_OkHandleIsRegistered ==
    (ret.op \in {"spawn", "restore"} /\ ret.res.ok) =>
        /\ ret.res.id \in active_vms
        /\ ret.res = ret.bres
        /\ active_vms = ret.reg0 \cup {ret.res.id}

C3_Witness ==
    /\ ret.op = "restore"
    /\ ret.res.ok
    /\ ret.reg0 # {}

\* C4: when the backend's spawn (restore) fails, the orchestrator's spawn (restore)
\* returns exactly the backend's error and leaves the registry unchanged; with the
\* backend whose spawn always fails the registry stays empty and active_count reads 0.
C4_BackendErrorPropagates ==
    /\ (ret.op \in {"spawn", "restore"} /\ ~ret.res.ok) =>
          /\ IsErr(ret.bres)
          /\ ret.res = ret.bres
          /\ active_vms = ret.reg0
    /\ backend = "AlwaysFail" =>
          /\ active_vms = {}
          /\ ret.op = "spawn" => ret.res = Err("SpawnFailed", NoId, <<"mock always fails">>)
          /\ ret.op = "active_count" => ret.res = Ok(0)

C4_Witness ==
    /\ ret.op = "spawn"
    /\ ret.res.kind = "SpawnFailed"
    /\ ret.reg0 # {}

\* C5: registry accesses are mutually exclusive (at most one task is between taking
\* and dropping the guard, and it is the holder), active_count returns the size of
\* the registry it locked, a new orchestrator has none, and once all calls have
\* returned the size of the registry is the number of successful spawn and restore
\* calls minus the number of successful terminate calls.
C5_RegistryIsSerialised ==
    /\ Cardinality({t \in Tasks : pc[t] \in CritPcs}) <= 1
    /\ \A t \in Tasks : pc[t] \in CritPcs <=> mutex = t
    /\ ret.op = "active_count" => ret.res = Ok(Cardinality(ret.reg0)) /\ active_vms = ret.reg0
    /\ (\A t \in Tasks : pc[t] = "idle") => RegistryLen(active_vms) = net_ok

C5_Witness ==
    /\ \A t \in Tasks : pc[t] = "idle"
    /\ net_ok = 1
    /\ Cardinality(acked) = 2
    /\ ret.op = "active_count"

\* C6: in every reachable state, every id in the registry belongs to a VM whose VMM
\* child process is alive (not killed, not exited).
C6_RegistryHoldsOnlyLiveVms ==
    \A id \in active_vms : proc[id] = "running"

\* C7: in every reachable state, each id in the registry is the id of a handle that
\* an earlier backend spawn or restore returned successfully.
C7_RegisteredWasAcknowledged ==
    active_vms \subseteq acked

C7_Witness ==
    /\ active_vms # {}
    /\ \E h \in handles : proc[h] = "foreign"

\* C8: a successful spawn followed by a successful terminate of the returned handle,
\* with no other change of the registry in between, leaves active_count at its value
\* before the spawn.
C8_SpawnThenTerminateRestoresCount ==
    (ret.op = "terminate" /\ ret.res.ok /\ ret.before # -1) =>
        RegistryLen(active_vms) = ret.before

C8_Witness ==
    /\ ret.op = "terminate"
    /\ ret.res.ok
    /\ ret.before = 1

\* C9: in FirecrackerBackend::snapshot, once PUT /snapshot/create has returned,
\* successfully or not, exactly one PATCH /vm Resumed is attempted before snapshot
\* returns, and it is attempted after the create; without a create there is none.
C9_ResumeAlwaysAttempted ==
    ret.op = "fc_snapshot" =>
        LET q == ret.reqs
            creates == {i \in DOMAIN q : q[i].req = "PUT /snapshot/create"}
            resumes == {i \in DOMAIN q : q[i].req = "PATCH /vm Resumed"}
        IN  /\ Cardinality(creates) <= 1
            /\ Cardinality(resumes) = Cardinality(creates)
            /\ \A i \in creates : \A j \in resumes : i < j

C9_Witness ==
    /\ ret.op = "fc_snapshot"
    /\ Len(ret.reqs) = 3
    /\ ~ret.reqs[2].ok
    /\ ret.reqs[3].req = "PATCH /vm Resumed"
    /\ ret.reqs[3].ok

\* C10: FirecrackerBackend::snapshot returns Ok with the new snapshot id exactly when
\* the Paused PATCH and the create both succeeded; a failed pause gives SnapshotFailed
\* with a reason beginning "pause failed: " and no create is sent; a failed create
\* gives SnapshotFailed with the VM id and the create error as reason; the outcome of
\* the Resumed PATCH has no part in the result.
C10_SnapshotResult ==
    ret.op = "fc_snapshot" =>
        LET q == ret.reqs IN
        IF q = <<>> THEN ret.res = Err("Io", NoId, <<"create_dir_all">>)
        ELSE /\ q[1].req = "PATCH /vm Paused"
             /\ ret.res.ok <=> (Len(q) >= 2 /\ q[1].ok /\ q[2].ok)
             /\ ret.res.ok => ret.res = Ok(ret.fresh)
             /\ ~q[1].ok =>
                   /\ Len(q) = 1
                   /\ ret.res.kind = "SnapshotFailed"
                   /\ ret.res.id = ret.arg
                   /\ ret.res.reason = <<"pause failed: ", "API request failed: ", q[1].msg>>
             /\ q[1].ok =>
                   /\ Len(q) = 3
                   /\ q[2].req = "PUT /snapshot/create"
                   /\ q[3].req = "PATCH /vm Resumed"
                   /\ ~q[2].ok =>
                         ret.res = Err("SnapshotFailed", ret.arg,
                                       <<"API request failed: ", q[2].msg>>)

C10_Witness ==
    /\ ret.op = "fc_snapshot"
    /\ Len(ret.reqs) = 3
    /\ ret.reqs[2].msg = "read response body"
    /\ ret.reqs[3].msg = "connect"
    /\ ret.res.kind = "SnapshotFailed"

\* C11: after FirecrackerBackend::snapshot returns Ok, the VM is resumed (not paused)
\* and both the memory file and the state file of the returned snapshot id exist.
C11_SnapshotOkLeavesVmResumed ==
    (ret.op = "fc_snapshot" /\ ret.res.ok) =>
        /\ ~paused[ret.arg]
        /\ ret.res.id \in mem_files
        /\ ret.res.id \in state_files

\* C12: after FirecrackerBackend::snapshot returns an error, the VM has been resumed
\* as far as the backend can: a PATCH /vm Resumed was attempted before the error was
\* returned, on every failing path that may have paused the VM (stated here for the
\* paths that did leave it paused).
C12_SnapshotErrorAfterResume ==
    (ret.op = "fc_snapshot" /\ IsErr(ret.res) /\ paused[ret.arg]) =>
        \E i \in DOMAIN ret.reqs : ret.reqs[i].req = "PATCH /vm Resumed"

\* C13: configure_and_boot, in spawn and in execute_command, sends PUT /boot-source,
\* PUT /drives/rootfs, PUT /machine-config, PUT /actions InstanceStart in that order,
\* each only after the previous one returned success, and nothing after a failure.
C13_ConfigureInOrder ==
    LET InOrder(q) ==
            /\ Len(q) <= 4
            /\ \A i \in DOMAIN q :
                  /\ q[i].req = <<"PUT /boot-source", "PUT /drives/rootfs",
                                  "PUT /machine-config", "PUT /actions InstanceStart">>[i]
                  /\ i < Len(q) => q[i].ok
    IN  /\ \A c \in Callers : op[c] \in {"fc_spawn", "fc_execute"} =>
              /\ InOrder(reqs[c])
              /\ \A i \in DOMAIN reqs[c] : reqs[c][i].ok
        /\ ret.op \in {"fc_spawn", "fc_execute"} => InOrder(ret.reqs)
        /\ (ret.op = "fc_spawn" /\ ret.res.ok) =>
              Len(ret.reqs) = 4 /\ ret.reqs[4].ok

C13_Witness ==
    /\ ret.op = "fc_execute"
    /\ Len(ret.reqs) = 3
    /\ ~ret.reqs[3].ok

\* C14: in spawn and execute_command, a failure of one of the four configure-and-boot
\* requests is returned as SpawnFailed carrying the failed request's error, and no
\* handle (no output) is returned.
C14_ConfigureFailureIsSpawnFailed ==
    (/\ ret.op \in {"fc_spawn", "fc_execute"}
     /\ ret.reqs # <<>>
     /\ ~ret.reqs[Len(ret.reqs)].ok) =>
        /\ ret.res = Err("SpawnFailed", NoId,
                         <<"API request failed: ", ret.reqs[Len(ret.reqs)].msg>>)
        /\ ret.fresh \notin handles
        /\ ret.fresh \notin acked

C14_Witness ==
    /\ ret.op = "fc_spawn"
    /\ Len(ret.reqs) = 4
    /\ ret.reqs[4].msg = "read response body"

\* C15: spawn checks its environment before launching anything: without /dev/kvm it
\* fails KvmUnavailable; otherwise, when the executable does not resolve (an absolute
\* path that does not exist, or a bare name not found in PATH), it fails BinaryNotFound;
\* and a call that fails these checks has allocated no VM id.
C15_SpawnChecksEnvironment ==
    checked.op = "fc_spawn" =>
        LET e == checked.env
            resolves == IF e.abs THEN e.exists ELSE e.in_path
        IN  /\ ~e.kvm => checked.res.kind = "KvmUnavailable"
            /\ (e.kvm /\ ~resolves) => checked.res.kind = "BinaryNotFound"
            /\ ~checked.res.ok => ret.op = "fc_spawn" /\ ret.fresh = NoId

\* C16: execute_command makes the same KVM and binary checks as spawn: against the
\* same filesystem answers, both pass or both fail with the same error kind.
C16_ExecuteChecksAsSpawn ==
    checked.op \in {"fc_spawn", "fc_execute"} =>
        /\ checked.res.kind = SpawnChecks(checked.env).kind
        /\ checked.res.kind = ExecuteChecks(checked.env).kind

C18_CancelSafe ==
    [][\A c \in Callers : (pc[c] # "idle" /\ pc'[c] = "idle" /\ ret'.slot # c) =>
          /\ (/\ op[c] = "fc_snapshot"
              /\ proc'[arg[c]] = "running"
              /\ paused'[arg[c]]) =>
                 reqs[c] # <<>> /\ reqs[c][1].was
          /\ \A i \in VmIds : proc'[i] = "running" =>
                 \/ i \in handles'
                 \/ \E d \in Callers :
                       \/ op'[d] \in {"fc_spawn", "fc_restore", "fc_execute"} /\ fresh'[d] = i
                       \/ op'[d] \in {"fc_snapshot", "fc_terminate"} /\ arg'[d] = i
      ]_vars

\* C19: dropping a VmHandle without calling terminate does not terminate the VM: its
\* VMM child process keeps running.
C19_DropKeepsVmRunning ==
    [][\A h \in VmIds : (h \in handles /\ h \notin handles' /\ \A c \in Callers : pc'[c] = pc[c])
                          => proc'[h] = proc[h]]_vars

C21_TimeoutIsIo ==
    ret.op = "fc_execute" /\ ret.bres = Elapsed => ret.res.kind = "Io"

\* C22: the steps of execute_command occur in this order: the child is launched, the
\* control socket appears, the four configure-and-boot requests succeed, the VMM's
\* stdout is read to EOF, the child's exit is awaited, the socket path is unlinked
\* (best-effort), and the output is returned; the socket file is removed only by that
\* last step, never when execute_command returns an error or its timeout passes.
C22_ExecuteOrder ==
    [][\A c \in Callers :
          op[c] = "fc_execute" =>
             /\ pc'[c] = "ex_wait" /\ pc[c] # "ex_wait" =>
                   pc[c] = "ex_mkdir" /\ proc[fresh[c]] = "none" /\ proc'[fresh[c]] = "running"
             /\ pc'[c] = ExecutePcs[1] /\ pc[c] # ExecutePcs[1] =>
                   pc[c] = "ex_wait" /\ fresh[c] \in sockets'
             /\ pc'[c] = "ex_read" /\ pc[c] # "ex_read" =>
                   /\ pc[c] = ExecutePcs[Len(ExecutePcs)]
                   /\ Len(reqs'[c]) = Len(ConfigureRequests)
                   /\ \A k \in 1..Len(reqs'[c]) :
                         reqs'[c][k].req = ConfigureRequests[k] /\ reqs'[c][k].ok
             /\ pc'[c] = "ex_exit" /\ pc[c] # "ex_exit" => pc[c] = "ex_read"
             /\ pc'[c] = "ex_unlink" /\ pc[c] # "ex_unlink" => pc[c] = "ex_exit"
             /\ ret'.slot = c /\ ret'.op = "fc_execute" /\ ret'.res.ok => pc[c] = "ex_unlink"
             /\ fresh[c] \in sockets /\ fresh[c] \notin sockets' =>
                   pc[c] = "ex_unlink" /\ ret'.slot = c /\ ret'.res.ok
             /\ ret'.slot = c /\ ret'.op = "fc_execute" /\ ~ret'.res.ok =>
                   (fresh[c] \in sockets' <=> fresh[c] \in sockets)
      ]_vars

\* execute_command returned its output after four successful requests and the unlink
\* of its socket
C22_Witness ==
    /\ ret.op = "fc_execute"
    /\ ret.res.ok
    /\ Len(ret.reqs) = Len(ConfigureRequests)
    /\ ret.fresh \notin sockets
    /\ proc[ret.fresh] = "exited"

C24_TerminateKillsThenUnlinks ==
    [][\A c \in Callers :
          op[c] = "fc_terminate" =>
             /\ pc[c] = "tm_kill" /\ pc'[c] = "tm_unlink" =>
                   /\ proc'[arg[c]] = "killed"
                   /\ arg[c] \in sockets' <=> arg[c] \in sockets
             /\ pc[c] = "tm_kill" /\ ret'.slot = c =>
                   /\ ret'.res = Err("Io", NoId, <<"kill">>)
                   /\ arg[c] \in sockets' <=> arg[c] \in sockets
             /\ pc[c] = "tm_unlink" /\ ret'.slot = c =>
                   /\ ret'.res = Ok(NoId)
                   /\ proc'[arg[c]] = "killed"
             /\ arg[c] \in sockets /\ arg[c] \notin sockets' => pc[c] = "tm_unlink"
             /\ ret'.slot = c /\ ret'.res.ok => pc[c] = "tm_unlink"
      ]_vars

\* terminate returned Ok after the kill although the socket file is still there
C24_Witness ==
    /\ ret.op = "fc_terminate"
    /\ ret.res.ok
    /\ proc[ret.arg] = "killed"
    /\ ret.arg \in sockets

\* C25: health_check returns Ok if and only if /dev/kvm exists, its metadata can be
\* read and the configured binary resolves (an absolute path exists, a relative one
\* is found in a directory of PATH); otherwise the first failing condition in that
\* order decides: KvmUnavailable for the first two, BinaryNotFound for the third.
C25_HealthCheck ==
    checked.op = "health_check" =>
       LET env == checked.env
           resolves == IF env.abs THEN env.exists ELSE \E i \in 1..Len(env.dirs) : env.dirs[i]
       IN /\ checked.res.ok <=> env.kvm /\ env.meta /\ resolves
          /\ ~env.kvm =>
                checked.res = Err("KvmUnavailable", NoId, <<"/dev/kvm not found">>)
          /\ env.kvm /\ ~env.meta => checked.res.kind = "KvmUnavailable"
          /\ env.kvm /\ env.meta /\ ~resolves => checked.res.kind = "BinaryNotFound"

\* health_check returned KvmUnavailable with /dev/kvm absent and the binary
\* unresolvable
C25_Witness ==
    /\ checked.op = "health_check"
    /\ ~checked.env.kvm
    /\ ~checked.env.abs /\ ~checked.env.in_path
    /\ checked.res.kind = "KvmUnavailable"

\* C26: parser round trip: for all byte strings stdout and stderr and all 32-bit exit
\* codes, the frame noise CRLF, FORGE_STDOUT_B64_START CRLF base64(stdout) CRLF
\* FORGE_STDOUT_B64_END CRLF, the same for stderr, FORGE_EXIT:<code> CRLF parses to
\* exactly (stdout, stderr, code), the empty strings and negative codes included.
C26_ParserRoundTrip ==
    output.ok /\ serial \in Frames(guest) =>
       output.out = ExecutionOutput(guest.stdout, guest.stderr, guest.code)

\* a frame of three bytes of stdout, two of stderr and the lowest exit code was parsed
C26_Witness ==
    /\ output.ok
    /\ serial \in Frames(guest)
    /\ Len(guest.stdout) = 3 /\ Len(guest.stderr) = 2
    /\ guest.code = -2147483647 - 1
    /\ output.out.stdout = guest.stdout
    /\ output.out.exit_code < 0

\* C27: the parser is all-or-nothing: when any of the three extractions (stdout
\* section, stderr section, exit code) fails, the result is the raw bytes unchanged as
\* stdout, an empty stderr and exit code -1; no part that was found is kept.
C27_ParserFallback ==
    output.ok =>
       LET out == extract_b64_section(serial, FORGE_STDOUT_B64_START, FORGE_STDOUT_B64_END)
           err == extract_b64_section(serial, FORGE_STDERR_B64_START, FORGE_STDERR_B64_END)
           code == extract_exit_code(serial)
       IN /\ ~(out.some /\ err.some /\ code.some) =>
                output.out = ExecutionOutput(serial, <<>>, -1)
          /\ serial \notin Frames(guest) =>
                \/ output.out = ExecutionOutput(serial, <<>>, -1)
                \/ out.some /\ err.some /\ code.some

\* a stream whose stdout section decodes but whose exit code is missing was parsed
C27_Witness ==
    /\ output.ok
    /\ extract_b64_section(serial, FORGE_STDOUT_B64_START, FORGE_STDOUT_B64_END).some
    /\ extract_b64_section(serial, FORGE_STDERR_B64_START, FORGE_STDERR_B64_END).some
    /\ ~extract_exit_code(serial).some
    /\ guest.stdout # <<>>
    /\ output.out.stdout = serial

\* C28: hash ordering: for all byte strings a # b, compute_hash(a, b) differs from
\* compute_hash(b, a) (SHA-256 taken as injective): two runs whose stdout and stderr
\* are swapped and differ have different output hashes (stated here for non-empty a
\* and b only, as the repository's property test draws them).
C28_HashOrdering ==
    /\ record.ok /\ prev.ok
    /\ prev.stdout = output.out.stderr /\ prev.stderr = output.out.stdout
    /\ prev.stdout # prev.stderr
    /\ prev.stdout # <<>> /\ prev.stderr # <<>>
    => prev.output_hash # record.rec.output_hash

\* C29: the output hash is deterministic: two runs with the same stdout and stderr
\* have the same output_hash, whatever their exit codes, execution ids, times and
\* durations.
C29_HashDeterministic ==
    /\ record.ok /\ prev.ok
    /\ prev.stdout = output.out.stdout /\ prev.stderr = output.out.stderr
    => prev.output_hash = record.rec.output_hash

\* two runs wrote the same non-empty output and differ in exit code and execution id
C29_Witness ==
    /\ record.ok /\ prev.ok
    /\ prev.stdout = output.out.stdout /\ prev.stderr = output.out.stderr
    /\ prev.stdout # <<>> /\ prev.stderr # <<>>
    /\ prev.exit_code # output.out.exit_code
    /\ prev.id # record.rec.id
    /\ prev.output_hash = record.rec.output_hash

\* C30: BlockRunner::execute returns a record exactly when execute_command returned
\* Ok; the record's status is Succeeded whatever the exit code, its block_id is the
\* block's id, its input_hash is SHA-256(input) and its output_hash is
\* SHA-256(stdout || stderr); when execute_command fails its error is returned
\* unchanged and there is no record.
C30_RecordIffOk ==
    ~call.running /\ call.block # NoId =>
       /\ record.ok <=> output.ok
       /\ record.ok =>
             /\ record.rec.status = "Succeeded"
             /\ record.rec.block_id = call.block
             /\ record.rec.input_hash = Sha256(call.input)
             /\ record.rec.output_hash = Sha256(output.out.stdout \o output.out.stderr)
       /\ ~output.ok => IsErr(output) /\ record = output

\* the runner returned a Succeeded record for a command that exited with a non-zero
\* code
C30_Witness ==
    /\ ~call.running
    /\ record.ok
    /\ output.out.exit_code # 0
    /\ record.rec.status = "Succeeded"
    /\ record.rec.block_id = call.block
    /\ call.input # <<>>

\* the calls of spawn, restore and execute_command, which allocate a VM id

\* the VM ids in use: those of the calls under way, of the handles held, of the
\* socket files and of the children launched
VmIdsInUse ==
    {fresh[c] : c \in {d \in Callers : op[d] \in VmOps}} \cup handles \cup sockets
    \cup {i \in VmIds : proc[i] # "none"} \cup acked

C32_WaitForSocket ==
    /\ [](polls.checks <= 50)
    /\ [][\A c \in Callers : pc[c] \in WaitPcs =>
             /\ pc[c] = "ws_check" => polls.slept = 100 * polls.checks
             /\ pc[c] = "ws_check" /\ fresh[c] \in sockets =>
                   pc'[c] = AfterWait(op[c]) /\ ret' = NoRet
             /\ pc'[c] \notin WaitPcs /\ pc'[c] # "idle" =>
                   pc[c] = "ws_check" /\ fresh[c] \in sockets
             /\ pc'[c] = "idle" =>
                   /\ polls'.checks = 50 /\ polls'.slept = 5000
                   /\ ret'.res = IF op[c] = "fc_restore"
                                 THEN Err("RestoreFailed", arg[c], Display(SocketTimeout(fresh[c])))
                                 ELSE SocketTimeout(fresh[c])
                   /\ ret'.res.kind = IF op[c] = "fc_restore" THEN "RestoreFailed"
                                      ELSE "SpawnFailed"
          ]_vars
    /\ <>(\A c \in Callers : pc[c] \notin WaitPcs)

C32_Witness ==
    /\ ret.op = "fc_restore" /\ ret.res.kind = "RestoreFailed"
    /\ polls.checks = 50 /\ polls.slept = 5000
    /\ ret.fresh \notin sockets

\* C33: a START marker counts only when CR LF follows it at once: when the console
\* ends the line of FORGE_STDOUT_B64_START or of FORGE_STDERR_B64_START with LF
\* alone, everything else being well formed, the parser returns the fallback
\* (raw, empty, -1); the END markers and FORGE_EXIT:<N> are taken whether CR LF, LF
\* alone or nothing follows them, and the parser returns what the guest wrote.
C33_StartNeedsCrLf ==
    output.kind = "Ok" =>
       /\ serial \in LfStart(guest) => output.out = ExecutionOutput(serial, <<>>, -1)
       /\ serial \in LooseEnds(guest) =>
             output.out = ExecutionOutput(guest.stdout, guest.stderr, guest.code)

C33_Witness ==
    /\ output.kind = "Ok"
    /\ serial \in LfStart(guest)
    /\ Find(serial, FORGE_STDERR_B64_START \o LF, 1) # 0
    /\ guest.stdout # <<>> /\ guest.code = 0
    /\ output.out.exit_code = -1

\* the parser's three patterns
ParserPatterns ==
    {FORGE_STDOUT_B64_START \o CRLF, FORGE_STDERR_B64_START \o CRLF, FORGE_EXIT}

\* C40: the three extractions are independent first-match searches over the whole
\* stream.  For a stream made of console output n followed by one well-formed frame of
\* what the guest wrote: when n holds none of FORGE_STDOUT_B64_START CR LF,
\* FORGE_STDERR_B64_START CR LF and FORGE_EXIT:, the parser returns the guest's
\* (stdout, stderr, exit code); an occurrence in n comes first and wins over the
\* frame: a FORGE_EXIT:7 line in n gives exit code 7 though it stands before the
\* stdout section, a whole stdout or stderr section in n gives that section's
\* payload, and a START line in n that only the frame's END closes gives the fallback.
C40_FirstMatchWins ==
    output.ok =>
       \A n \in MarkerNoises \cup {x \o CRLF : x \in Noises} :
          serial = n \o Frame(guest) =>
             /\ (\A pat \in ParserPatterns : Find(n, pat, 1) = 0) =>
                   output.out = ExecutionOutput(guest.stdout, guest.stderr, guest.code)
             /\ n = ExitNoise => output.out = ExecutionOutput(guest.stdout, guest.stderr, 7)
             /\ n = StdoutNoise => output.out = ExecutionOutput(<<0>>, guest.stderr, guest.code)
             /\ n = StderrNoise => output.out = ExecutionOutput(guest.stdout, <<0>>, guest.code)
             /\ n = OpenStartNoise => output.out = ExecutionOutput(serial, <<>>, -1)

C40_Witness ==
    /\ output.ok
    /\ serial = ExitNoise \o Frame(guest)
    /\ guest.code = 42 /\ output.out.exit_code = 7
    /\ guest.stdout # <<>> /\ output.out.stdout = guest.stdout

\* C34: SandboxPool.  create returns an id that was not registered and is from then
\* on; contains(id) answers whether id is registered, and a registered id stays
\* registered until remove(id) is called; remove(id) returns true exactly when id was
\* registered and id is not registered afterwards; remove of an id that is not
\* registered returns false and changes nothing; no call changes the membership or
\* the entry of any id other than its own.
C34_PoolMembership ==
    [][/\ ret'.op = "pool_create" =>
             /\ ret'.res \notin Keys(entries)
             /\ Keys(entries') = Keys(entries) \cup {ret'.res}
       /\ ret'.op = "pool_contains" =>
             /\ ret'.res = (ret'.arg \in Keys(entries))
             /\ entries' = entries
       /\ ret'.op = "pool_remove" =>
             /\ ret'.res = (ret'.arg \in Keys(entries))
             /\ ret'.arg \notin Keys(entries')
             /\ Keys(entries') = Keys(entries) \ {ret'.arg}
             /\ ~ret'.res => entries' = entries
       /\ \A id \in Keys(entries) \ Keys(entries') :
             ret'.op = "pool_remove" /\ ret'.arg = id
       /\ \A i \in DOMAIN entries : \A j \in DOMAIN entries' :
             entries[i].id = entries'[j].id => entries[i] = entries'[j]
      ]_vars

\* the first of three sandboxes was removed and the other two are registered
C34_Witness ==
    /\ ret.op = "pool_remove" /\ ret.arg = 1 /\ ret.res = TRUE
    /\ Keys(entries) = {2, 3}

\* C35: the registry mutex is never held while a backend operation is in flight.  The
\* guard is held only for the one statement that tests, inserts, removes or counts,
\* and that statement can always run, so the guard is always given back; a task
\* waiting for the lock gets it as soon as it is free, whatever backend operations
\* are suspended; and whenever calls are under way one of them can take a step: no
\* interleaving deadlocks.
C35_NoLockAcrossBackend ==
    /\ \A t \in Tasks : pc[t] \in BackendPcs => mutex # t
    /\ mutex # NoTask => pc[mutex] \in CritPcs /\ ENABLED CritStep(mutex)
    /\ \A t \in Tasks : pc[t] \in LockPcs /\ mutex = NoTask => ENABLED MutexLock(t)
    /\ (\E t \in Tasks : pc[t] # "idle") => \E t \in Tasks : ENABLED Progress(t)

\* active_count returned while another task's backend terminate was suspended
C35_Witness ==
    /\ ret.op = "active_count" /\ ret.res = Ok(1)
    /\ \E t \in Tasks : pc[t] = "b_terminate" /\ t # ret.slot

\* C36: with handles that come from VmOrchestrator.spawn or restore only, each owned
\* by one task and never duplicated, the orchestrator calls the backend's terminate at
\* most once for each VM id, and no backend snapshot is started or in flight for an id
\* that has been removed from the registry, under every interleaving, although
\* terminate gives the lock back between its membership test and its removal.
C36_TerminateOncePerVm ==
    /\ \A id \in VmIds : audit.invoked[id] <= 1
    /\ \A t \in Tasks : pc[t] = "b_snapshot" => arg[t] \notin audit.removed
    /\ ret.op = "snapshot" /\ ret.bres # NoRes => ret.arg \notin audit.removed

\* between the membership test and the removal of one terminate, another task holds
\* the guard, and a VM was removed before
C36_Witness ==
    /\ \E t \in Tasks : pc[t] = "terminate_lock2" /\ audit.invoked[arg[t]] = 1
                         /\ mutex \notin {t, NoTask}
    /\ audit.removed # {}

\* C37: when the backend's terminate fails inside VmOrchestrator.terminate, the handle
\* is gone with the call and the id stays in the registry in every later state; as
\* long as the VMs that were registered when it was inserted are all still registered,
\* active_count stays above its value before that VM was spawned.
C37_FailedTerminateLeaks ==
    \A id \in audit.failed :
       /\ id \in active_vms
       /\ id \notin handles
       /\ \A t \in Tasks : pc[t] # "idle" => arg[t] # id \/ op[t] \notin {"snapshot", "terminate"}
       /\ audit.reg0[id] \subseteq active_vms =>
             RegistryLen(active_vms) > Cardinality(audit.reg0[id])

\* a terminate failed in the backend, and another VM is registered as well
C37_Witness ==
    /\ ret.op = "terminate" /\ ret.res.kind = "Io"
    /\ ret.arg \in audit.failed
    /\ RegistryLen(active_vms) = 2

\* C37 as stated: after a failed backend terminate the id stays in the registry and
\* active_count never again has the value it had before that VM was spawned.
C37_CountNeverReturns ==
    \A id \in audit.failed :
       /\ id \in active_vms
       /\ RegistryLen(active_vms) # Cardinality(audit.reg0[id])

\* the lifecycle methods of FirecrackerBackend
FcOps == {"fc_spawn", "fc_snapshot", "fc_restore", "fc_terminate", "fc_execute"}

\* C38: no FirecrackerBackend operation returns ApiError.  A failed control request
\* makes spawn and execute_command return SpawnFailed, snapshot return SnapshotFailed
\* (for the pause and the create request) and restore return RestoreFailed; the failure
\* of the resume request after a snapshot is swallowed: snapshot then returns what the
\* create request decides; terminate sends no request.
C38_NoApiErrorEscapes ==
    ret.op \in FcOps =>
       /\ ret.res.kind # "ApiError"
       /\ \A i \in DOMAIN ret.reqs : ~ret.reqs[i].ok =>
             CASE ret.op \in {"fc_spawn", "fc_execute"} -> ret.res.kind = "SpawnFailed"
               [] ret.op = "fc_restore" -> ret.res.kind = "RestoreFailed"
               [] ret.op = "fc_snapshot" ->
                    IF ret.reqs[i].req = "PATCH /vm Resumed"
                    THEN ret.res.ok <=> \A j \in 1..(i - 1) : ret.reqs[j].ok
                    ELSE ret.res.kind = "SnapshotFailed"
               [] OTHER -> FALSE

\* a snapshot returned Ok although its resume request failed
C38_Witness ==
    /\ ret.op = "fc_snapshot" /\ ret.res.ok
    /\ ~ret.reqs[Len(ret.reqs)].ok
    /\ ret.reqs[Len(ret.reqs)].req = "PATCH /vm Resumed"

\* the ids a snapshot call may draw, and one more
SnapshotIdsDrawn == 1..(MaxSnaps + 1)

\* C39: snapshot and restore name the same pair of files.  The PUT /snapshot/create
\* of the snapshot that returns id S carries snapshot_path <snapshot_dir>/<S>.state
\* and mem_file_path <snapshot_dir>/<S>.mem; restore(S) tests these two paths and its
\* PUT /snapshot/load carries the same two as snapshot_path and
\* mem_backend.backend_path; and no file of one snapshot id is a file of another.
C39_SamePathsBothWays ==
    /\ ret.op = "fc_snapshot" =>
          \A i \in DOMAIN ret.reqs : ret.reqs[i].req = "PUT /snapshot/create" =>
             /\ ret.reqs[i].body.snapshot_path = <<"snapshot_dir", ret.fresh, ".state">>
             /\ ret.reqs[i].body.mem_file_path = <<"snapshot_dir", ret.fresh, ".mem">>
    /\ ret.op = "fc_restore" =>
          /\ \A i \in DOMAIN ret.reqs : ret.reqs[i].req = "PUT /snapshot/load" =>
                /\ ret.reqs[i].body.snapshot_path = CreateBody(ret.arg).snapshot_path
                /\ ret.reqs[i].body.mem_backend.backend_path = CreateBody(ret.arg).mem_file_path
                /\ ret.reqs[i].body.snapshot_path = <<"snapshot_dir", ret.arg, ".state">>
                /\ ret.reqs[i].body.mem_backend.backend_path = <<"snapshot_dir", ret.arg, ".mem">>
                /\ SnapshotFileExists(ret.reqs[i].body.snapshot_path)
                /\ SnapshotFileExists(ret.reqs[i].body.mem_backend.backend_path)
          /\ ret.res.reason = <<"snapshot files not found at ", ret.arg, ".mem">> =>
                \/ ~SnapshotFileExists(CreateBody(ret.arg).snapshot_path)
                \/ ~SnapshotFileExists(CreateBody(ret.arg).mem_file_path)
    /\ \A a, b \in SnapshotIdsDrawn : a # b =>
          {snapshot_mem_path(a), snapshot_state_path(a)}
             \cap {snapshot_mem_path(b), snapshot_state_path(b)} = {}
    /\ \A a \in SnapshotIdsDrawn : snapshot_mem_path(a) # snapshot_state_path(a)

\* a restore of a snapshot sent its load request and returned a handle
C39_Witness ==
    /\ ret.op = "fc_restore" /\ ret.res.ok
    /\ Len(ret.reqs) = 1
    /\ ret.reqs[1].body.mem_backend.backend_path = snapshot_mem_path(ret.arg)
    /\ ret.arg \in mem_files
====
